---- MODULE Spec2Model ----
(***************************************************************************)
(* The ranked-choice poll engine of hellothere: the Poll state machine     *)
(* driven by the interaction handlers (src/main.go), the ballot operations *)
(* UpsertVote / FinalizeVote and the Instant-Runoff tally CalculateResults *)
(* (src/poll_logic.go, the second draft, lines 150-303).                   *)
(***************************************************************************)
EXTENDS Integers, Sequences, FiniteSets, TLC

(***************************************************************************)
(* Bounds of the model.                                                    *)
(***************************************************************************)
\* most candidates of a tallied poll
MaxN == 3
\* longest ranking of a vote of a tallied poll
MaxRankLen == 3
\* most ranking slots of a tallied poll, all votes together
MaxEntries == 4
\* the cap on a poll's submissions (MaxSubmissions = 20 in the program,
\* scaled down)
MaxSubmissions == 2

(***************************************************************************)
(* Program constants.                                                      *)
(***************************************************************************)
PhaseSubmission == 0
PhaseVoting == 1
PhaseCompleted == 2

\* identities of the users acting on polls
Users == <<"u1", "u2", "u3">>

\* a tallied poll holds at most one vote per user
MaxVotes == Len(Users)

\* the users sending interactions to the handlers: the creator of the poll
\* and another member
Actors == {"u1", "u2"}

\* the guild the polls are created in, and the clock readings of time.Now()
Guilds == {"g1"}

Times == {1}

\* fmt.Sprintf("%s-%d", guildID, now.Unix()), src/poll_logic.go:163
PollIDOf(guildID, now) == guildID \o "-" \o ToString(now)

\* the poll identities interactions may name: those of created polls and
\* one that no poll has
UnknownPollID == "g1-0"

EventPollIDs == {PollIDOf(g, t) : g \in Guilds, t \in Times} \cup {UnknownPollID}

\* the poll the tally specification works on
TallyPollID == "g1-1"

\* type kind, src/unnamed/part_002:353-363
SubmitModal == "submit-modal"
VoteSelect == "vote-select"
VoteSubmit == "vote-submit"
LockButton == "lock"
EndButton == "end"
VoteButton == "vote"
SubmitButton == "submit"

Kinds == {SubmitModal, VoteSelect, VoteSubmit, LockButton, EndButton, VoteButton, SubmitButton}

\* the content of polls.json: no file, a file cut short by a failed write,
\* or the JSON object written by SaveToFile
NoFile == [kind |-> "absent"]

PartialFile == [kind |-> "partial"]

\* a polls.json that cannot be opened for reading
UnreadableFile == [kind |-> "unreadable"]

\* nothing has been logged as failed
NoLog == [msg |-> "none"]

\* no formID: nothing was encoded, or nothing decoded yet
NoForm == [tag |-> "none"]

VARIABLES
  polls,             \* PollState.polls: poll id -> Poll
  tpc,               \* position of the CalculateResults call: idle, loop, done
  eliminated,        \* CalculateResults: the eliminated map, as its key set
  eliminationOrder,  \* CalculateResults: eliminationOrder
  counts,            \* CalculateResults: the counts map of the last round
  results,           \* CalculateResults: the returned slice
  prevResults,       \* what the previous call on the same poll returned
  file,              \* the content of polls.json
  crashed,           \* the process died of a panic and has not restarted
  sent,              \* the formID whose String() is the custom ID, if one is
  customID,          \* the custom ID of the interaction being routed
  parsed,            \* what parseForm returned for customID
  logged,            \* the last failure written to the log by slog
  heap,              \* the Poll objects allocated, by address
  registry,          \* PollState.polls as the goroutines see it: poll id -> address
  psmut,             \* PollState.mut: the writer and the readers holding it, the writer waiting
  pollmut,           \* Poll.mut of each object: the goroutine holding it
  pc,                \* the position of each goroutine in its callback
  token,             \* the formID each handler goroutine parsed
  target,            \* the *Poll each goroutine holds, 0 for nil
  local              \* what each handler goroutine read of its Poll

vars == <<polls, tpc, eliminated, eliminationOrder, counts, results, prevResults,
          file, crashed, sent, customID, parsed, logged,
          heap, registry, psmut, pollmut, pc, token, target, local>>

codecVars == <<sent, customID, parsed>>

\* the variables the poll engine leaves alone
lockVars == <<heap, registry, psmut, pollmut, pc, token, target, local>>

auxVars == <<codecVars, logged, lockVars>>

\* the goroutines discordgo runs the callbacks on: two of interactions with
\* a poll's message and one of the command that creates a poll
Handlers == {"h1", "h2"}

Creator == "c"

Procs == Handlers \cup {Creator}

\* no goroutine runs: nothing is allocated and no lock is held
LocksIdle ==
  /\ heap = <<>>
  /\ registry = [id \in {} |-> 0]
  /\ psmut = [writer |-> "none", pending |-> "none", readers |-> {}]
  /\ pollmut = <<>>
  /\ pc = [p \in Procs |-> "idle"]
  /\ token = [p \in Handlers |-> NoForm]
  /\ target = [p \in Procs |-> 0]
  /\ local = [p \in Handlers |-> NoForm]

handlerVars == <<file, crashed>>

tallyVars == <<tpc, eliminated, eliminationOrder, counts, results, prevResults>>

(***************************************************************************)
(* Go strings, as the sequences of their characters.                       *)
(***************************************************************************)
DigitChars == <<"0", "1", "2", "3", "4", "5", "6", "7", "8", "9">>

\* the verb %d of fmt.Sprintf
RECURSIVE Itoa(_)
Itoa(n) ==
  IF n < 0 THEN <<"-">> \o Itoa(0 - n)
  ELSE IF n < 10 THEN <<DigitChars[n + 1]>>
  ELSE Itoa(n \div 10) \o <<DigitChars[(n % 10) + 1]>>

IsDigit(c) == \E d \in 1..10 : DigitChars[d] = c

DigitValue(c) == (CHOOSE d \in 1..10 : DigitChars[d] = c) - 1

\* the value of the decimal digits str[1..k]
RECURSIVE DigitsValue(_, _)
DigitsValue(str, k) ==
  IF k = 0 THEN 0 ELSE DigitsValue(str, k - 1) * 10 + DigitValue(str[k])

\* strconv.Atoi: an optional sign and at least one decimal digit, or an
\* error with the value 0
strconvAtoi(str) ==
  LET signed == Len(str) > 0 /\ str[1] \in {"-", "+"}
      digits == IF signed THEN Tail(str) ELSE str
  IN IF Len(digits) = 0 \/ \E k \in 1..Len(digits) : ~IsDigit(digits[k])
     THEN [err |-> TRUE, n |-> 0]
     ELSE [err |-> FALSE,
           n |-> IF signed /\ str[1] = "-"
                 THEN 0 - DigitsValue(digits, Len(digits))
                 ELSE DigitsValue(digits, Len(digits))]

\* strings.Split(s, sep) for a separator of one character, from position i
\* on: cur is the field being read, done the fields read
RECURSIVE SplitFrom(_, _, _, _, _)
SplitFrom(s, sep, i, cur, done) ==
  IF i > Len(s) THEN Append(done, cur)
  ELSE IF s[i] = sep THEN SplitFrom(s, sep, i + 1, <<>>, Append(done, cur))
  ELSE SplitFrom(s, sep, i + 1, Append(cur, s[i]), done)

Split(s, sep) == SplitFrom(s, sep, 1, <<>>, <<>>)

(***************************************************************************)
(* Helpers for Go slices and maps.                                         *)
(***************************************************************************)
\* sequences over S of length at most n
SeqsUpTo(S, n) == UNION {[1..k -> S] : k \in 0..n}

\* a Go map[int]int read: an absent key reads as 0
Get(m, k) == IF k \in DOMAIN m THEN m[k] ELSE 0

\* a Go map[int]int increment: m[k]++
Inc(m, k) == [x \in (DOMAIN m) \cup {k} |-> IF x = k THEN Get(m, k) + 1 ELSE m[x]]

\* the empty map
EmptyMap == [x \in {} |-> 0]

\* sort.Ints: insertion of x into the ascending sequence s
RECURSIVE InsertSorted(_, _)
InsertSorted(s, x) ==
  IF s = <<>> THEN <<x>>
  ELSE IF x <= Head(s) THEN <<x>> \o s
  ELSE <<Head(s)>> \o InsertSorted(Tail(s), x)

RECURSIVE SortInts(_)
SortInts(s) == IF s = <<>> THEN <<>> ELSE InsertSorted(SortInts(Tail(s)), Head(s))

(***************************************************************************)
(* CalculateResults, src/poll_logic.go:211-284.                            *)
(***************************************************************************)
\* line 237: the entry is counted when it is a candidate still in the race
\* (the variant that leaves out the test against 0)
CountsForNoLowerBound(candidateIdx, numCandidates, elim) ==
  candidateIdx < numCandidates /\ candidateIdx \notin elim

CountsFor(candidateIdx, numCandidates, elim) ==
  candidateIdx >= 0 /\ candidateIdx < numCandidates /\ candidateIdx \notin elim

\* lines 236-241: one vote's scan of its ranking, from slot j on; the first
\* entry that counts is incremented and the scan breaks
RECURSIVE ScanRankings(_, _, _, _, _)
ScanRankings(rankings, j, numCandidates, elim, cnt) ==
  IF j > Len(rankings) THEN cnt
  ELSE IF CountsFor(rankings[j], numCandidates, elim) THEN Inc(cnt, rankings[j])
  ELSE ScanRankings(rankings, j + 1, numCandidates, elim, cnt)

\* lines 233-242: the counts of one round
\* (the variant that passes over the votes never finalized)
RECURSIVE CountVotesFinalized(_, _, _, _, _)
CountVotesFinalized(votes, i, numCandidates, elim, cnt) ==
  IF i > Len(votes) THEN cnt
  ELSE IF votes[i].VotedAt = 0
       THEN CountVotesFinalized(votes, i + 1, numCandidates, elim, cnt)
  ELSE CountVotesFinalized(votes, i + 1, numCandidates, elim,
                           ScanRankings(votes[i].Rankings, 1, numCandidates, elim, cnt))

\* lines 233-242: the counts of one round, vote by vote from vote i on
RECURSIVE CountVotes(_, _, _, _, _)
CountVotes(votes, i, numCandidates, elim, cnt) ==
  IF i > Len(votes) THEN cnt
  ELSE CountVotes(votes, i + 1, numCandidates, elim,
                  ScanRankings(votes[i].Rankings, 1, numCandidates, elim, cnt))

\* lines 245-252: the minimum count among the remaining candidates, from
\* candidate candidateIdx on, starting at len(p.Votes)+1
RECURSIVE MinVotes(_, _, _, _, _)
MinVotes(cnt, candidateIdx, numCandidates, elim, minVotes) ==
  IF candidateIdx >= numCandidates THEN minVotes
  ELSE MinVotes(cnt, candidateIdx + 1, numCandidates, elim,
                IF candidateIdx \notin elim /\ Get(cnt, candidateIdx) < minVotes
                THEN Get(cnt, candidateIdx) ELSE minVotes)

\* lines 255-260: the remaining candidates whose count is the minimum
RECURSIVE TiedCandidates(_, _, _, _, _)
TiedCandidates(cnt, candidateIdx, numCandidates, elim, minVotes) ==
  IF candidateIdx >= numCandidates THEN <<>>
  ELSE (IF candidateIdx \notin elim /\ Get(cnt, candidateIdx) = minVotes
        THEN <<candidateIdx>> ELSE <<>>)
       \o TiedCandidates(cnt, candidateIdx + 1, numCandidates, elim, minVotes)

\* lines 261-264: the candidates the round may eliminate: the first of the
\* sorted tied candidates
\* (the variants that take any of the tied candidates, and the last one)
ToEliminateAny(tiedCandidates) == {tiedCandidates[k] : k \in 1..Len(tiedCandidates)}

ToEliminateLast(tiedCandidates) == {SortInts(tiedCandidates)[Len(tiedCandidates)]}

ToEliminate(tiedCandidates) == {SortInts(tiedCandidates)[1]}

\* line 231: the loop runs while more than one candidate remains
\* (the variant that stops one round early)
LoopGuardOffByOne(elim, numCandidates) == Cardinality(elim) < numCandidates - 2

LoopGuard(elim, numCandidates) == Cardinality(elim) < numCandidates - 1

\* lines 270-275: the first candidate not eliminated, as a sequence of at
\* most one element
\* (the variant that leaves out the test of eliminated)
WinnerFirst(i, numCandidates, elim) == <<i>>

RECURSIVE Winner(_, _, _)
Winner(i, numCandidates, elim) ==
  IF i >= numCandidates THEN <<>>
  ELSE IF i \notin elim THEN <<i>>
  ELSE Winner(i + 1, numCandidates, elim)

\* lines 278-281: results[i] = eliminationOrder[len-1-i]
\* (the variant that does not reverse)
ReverseKeep(order) == order

Reverse(order) == [i \in 1..Len(order) |-> order[Len(order) + 1 - i]]

\* lines 219-223: the natural order 0..numCandidates-1
NaturalOrder(numCandidates) == [i \in 1..numCandidates |-> i - 1]

\* line 218: the early return of a poll without votes
\* (the variant without the early return)
NoVotesNever(votes) == FALSE

NoVotes(votes) == Len(votes) = 0

(***************************************************************************)
(* The tally as a process: one call of CalculateResults on the poll        *)
(* TallyPollID, one action per loop iteration.                             *)
(***************************************************************************)
TallyPoll == polls[TallyPollID]

numCandidates == Len(TallyPoll.Submissions)

\* lines 212-227: the early returns, or the entry into the loop
TallyStart ==
  /\ tpc = "idle"
  /\ IF numCandidates = 0
     THEN /\ results' = <<>>
          /\ tpc' = "done"
     ELSE IF NoVotes(TallyPoll.Votes)
     THEN /\ results' = NaturalOrder(numCandidates)
          /\ tpc' = "done"
     ELSE /\ results' = <<>>
          /\ tpc' = "loop"
  /\ eliminated' = {}
  /\ eliminationOrder' = <<>>
  /\ counts' = EmptyMap
  /\ UNCHANGED <<polls, prevResults, handlerVars, auxVars>>

\* lines 231-267
\* (the variant that strikes the eliminated candidate out of the rankings)
TallyRoundStriking ==
  /\ tpc = "loop"
  /\ LoopGuard(eliminated, numCandidates)
  /\ LET cnt == CountVotes(TallyPoll.Votes, 1, numCandidates, eliminated, EmptyMap)
         minVotes == MinVotes(cnt, 0, numCandidates, eliminated, Len(TallyPoll.Votes) + 1)
         tiedCandidates == TiedCandidates(cnt, 0, numCandidates, eliminated, minVotes)
     IN \E toEliminate \in ToEliminate(tiedCandidates) :
          /\ counts' = cnt
          /\ eliminated' = eliminated \cup {toEliminate}
          /\ eliminationOrder' = Append(eliminationOrder, toEliminate)
          /\ polls' = [polls EXCEPT ![TallyPollID].Votes =
                         [i \in 1..Len(@) |->
                            [@[i] EXCEPT !.Rankings =
                               [j \in 1..Len(@) |-> IF @[j] = toEliminate THEN -1 ELSE @[j]]]]]
  /\ UNCHANGED <<tpc, results, prevResults, handlerVars, auxVars>>

\* lines 231-267: one elimination round
TallyRound ==
  /\ tpc = "loop"
  /\ LoopGuard(eliminated, numCandidates)
  /\ LET cnt == CountVotes(TallyPoll.Votes, 1, numCandidates, eliminated, EmptyMap)
         minVotes == MinVotes(cnt, 0, numCandidates, eliminated, Len(TallyPoll.Votes) + 1)
         tiedCandidates == TiedCandidates(cnt, 0, numCandidates, eliminated, minVotes)
     IN \E toEliminate \in ToEliminate(tiedCandidates) :
          /\ counts' = cnt
          /\ eliminated' = eliminated \cup {toEliminate}
          /\ eliminationOrder' = Append(eliminationOrder, toEliminate)
  /\ UNCHANGED <<polls, tpc, results, prevResults, handlerVars, auxVars>>

\* lines 269-283: the winner is appended and the order reversed
TallyFinish ==
  /\ tpc = "loop"
  /\ ~LoopGuard(eliminated, numCandidates)
  /\ eliminationOrder' = eliminationOrder \o Winner(0, numCandidates, eliminated)
  /\ results' = Reverse(eliminationOrder')
  /\ tpc' = "done"
  /\ UNCHANGED <<polls, eliminated, counts, prevResults, handlerVars, auxVars>>

\* a second call of CalculateResults on the unchanged poll
TallyAgain ==
  /\ tpc = "done"
  /\ prevResults = {}
  /\ prevResults' = {results}
  /\ tpc' = "idle"
  /\ UNCHANGED <<polls, eliminated, eliminationOrder, counts, results, handlerVars, auxVars>>

(***************************************************************************)
(* The inputs of the tally: every poll of at most MaxN submissions and at  *)
(* most MaxVotes votes whose rankings, of any length up to MaxRankLen,     *)
(* hold candidate indices, the sentinel -1 or the out-of-range index N.    *)
(***************************************************************************)
MakeSubmission(userID) ==
  [UserID |-> userID,
   Username |-> userID,
   GameName |-> "game",
   Description |-> "",
   Link |-> "",
   SubmittedAt |-> 0]

MakeVote(userID, rankings) == [UserID |-> userID, Rankings |-> rankings, VotedAt |-> 0]

UserOf(i) == Users[((i - 1) % Len(Users)) + 1]

\* the sum of the lengths lens[1..k]
RECURSIVE SumLens(_, _)
SumLens(lens, k) == IF k = 0 THEN 0 ELSE lens[k] + SumLens(lens, k - 1)

\* the rankings of lengths lens cut out of the slots flat, in order
SplitRankings(flat, lens) ==
  [i \in 1..Len(lens) |-> SubSeq(flat, SumLens(lens, i - 1) + 1, SumLens(lens, i))]

TallyPollOf(n, rankings) ==
  [ID |-> TallyPollID,
   GuildID |-> "g1",
   ChannelID |-> "c1",
   CreatorID |-> Users[1],
   Phase |-> PhaseCompleted,
   EndTime |-> 0,
   CreatedAt |-> 0,
   Submissions |-> [i \in 1..n |-> MakeSubmission(UserOf(i))],
   Votes |-> [i \in 1..Len(rankings) |-> MakeVote(UserOf(i), rankings[i])],
   Interaction |-> "nil",
   MessageID |-> ""]

InitTally ==
  /\ \E n \in 0..MaxN, k \in 0..MaxVotes :
       \E lens \in [1..k -> 0..MaxRankLen] :
         /\ SumLens(lens, k) <= MaxEntries
         /\ \E flat \in [1..SumLens(lens, k) -> (-1)..n] :
              polls = [id \in {TallyPollID} |-> TallyPollOf(n, SplitRankings(flat, lens))]
  /\ tpc = "idle"
  /\ eliminated = {}
  /\ eliminationOrder = <<>>
  /\ counts = EmptyMap
  /\ results = <<>>
  /\ prevResults = {}
  /\ file = NoFile
  /\ crashed = FALSE
  /\ sent = NoForm
  /\ customID = <<>>
  /\ parsed = NoForm
  /\ logged = NoLog
  /\ LocksIdle

\* the tallied poll in a given Phase
TallyPollIn(phase, n, rankings) == [TallyPollOf(n, rankings) EXCEPT !.Phase = phase]

\* the inputs of the tally in every Phase, one candidate and one ranking
\* slot fewer
InitTallyAnyPhase ==
  /\ \E phase \in {PhaseSubmission, PhaseVoting, PhaseCompleted},
        n \in 0..(MaxN - 1), k \in 0..MaxVotes :
       \E lens \in [1..k -> 0..(MaxRankLen - 1)] :
         /\ SumLens(lens, k) <= MaxEntries - 1
         /\ \E flat \in [1..SumLens(lens, k) -> (-1)..n] :
              polls = [id \in {TallyPollID} |-> TallyPollIn(phase, n, SplitRankings(flat, lens))]
  /\ tpc = "idle"
  /\ eliminated = {}
  /\ eliminationOrder = <<>>
  /\ counts = EmptyMap
  /\ results = <<>>
  /\ prevResults = {}
  /\ file = NoFile
  /\ crashed = FALSE
  /\ sent = NoForm
  /\ customID = <<>>
  /\ parsed = NoForm
  /\ logged = NoLog
  /\ LocksIdle

NextTally == TallyStart \/ TallyRound \/ TallyFinish \/ TallyAgain

SpecTally == InitTally /\ [][NextTally]_vars

SpecTallyAnyPhase == InitTallyAnyPhase /\ [][NextTally]_vars

(***************************************************************************)
(* The Poll and its operations.                                            *)
(***************************************************************************)
\* CreatePoll, src/poll_logic.go:161-177
CreatePoll(guildID, channelID, creatorID, i, now, hours) ==
  [ID |-> PollIDOf(guildID, now),
   GuildID |-> guildID,
   ChannelID |-> channelID,
   CreatorID |-> creatorID,
   Phase |-> PhaseSubmission,
   Submissions |-> <<>>,
   Votes |-> <<>>,
   EndTime |-> now + hours,
   CreatedAt |-> now,
   Interaction |-> i,
   MessageID |-> ""]

\* (the variant of the search that never finds the user's vote)
VoteIndexNone(votes, userID, i) == 0

\* the index of the first vote of userID from vote i on, 0 when there is none
RECURSIVE VoteIndex(_, _, _)
VoteIndex(votes, userID, i) ==
  IF i > Len(votes) THEN 0
  ELSE IF votes[i].UserID = userID THEN i
  ELSE VoteIndex(votes, userID, i + 1)

\* UpsertVote, src/poll_logic.go:286-303
\* (the variant that appends a vote whether or not the user has one)
UpsertVoteAppend(p, userID, rank, selection) ==
  LET fresh == [k \in 1..Len(p.Submissions) |-> -1]
  IN IF rank < 0 \/ rank >= Len(fresh)
     THEN [panic |-> TRUE, Votes |-> p.Votes]
     ELSE [panic |-> FALSE,
           Votes |-> Append(p.Votes,
                            [UserID |-> userID,
                             Rankings |-> [fresh EXCEPT ![rank + 1] = selection],
                             VotedAt |-> 0])]

\* (the variant that leaves the slots of a new vote at Go's zero value)
UpsertVoteZeroed(p, userID, rank, selection) ==
  LET i == VoteIndex(p.Votes, userID, 1)
      fresh == [k \in 1..Len(p.Submissions) |-> 0]
  IN IF i > 0
     THEN IF rank < 0 \/ rank >= Len(p.Votes[i].Rankings)
          THEN [panic |-> TRUE, Votes |-> p.Votes]
          ELSE [panic |-> FALSE,
                Votes |-> [p.Votes EXCEPT ![i].Rankings[rank + 1] = selection]]
     ELSE IF rank < 0 \/ rank >= Len(fresh)
          THEN [panic |-> TRUE, Votes |-> p.Votes]
          ELSE [panic |-> FALSE,
                Votes |-> Append(p.Votes,
                                 [UserID |-> userID,
                                  Rankings |-> [fresh EXCEPT ![rank + 1] = selection],
                                  VotedAt |-> 0])]

\* UpsertVote, src/poll_logic.go:286-303: the slot rank of the user's vote
\* is set, the vote being created with sentinel slots when the user has
\* none; a rank outside the ranking is an index out of range, a panic
UpsertVote(p, userID, rank, selection) ==
  LET i == VoteIndex(p.Votes, userID, 1)
      fresh == [k \in 1..Len(p.Submissions) |-> -1]
  IN IF i > 0
     THEN IF rank < 0 \/ rank >= Len(p.Votes[i].Rankings)
          THEN [panic |-> TRUE, Votes |-> p.Votes]
          ELSE [panic |-> FALSE,
                Votes |-> [p.Votes EXCEPT ![i].Rankings[rank + 1] = selection]]
     ELSE IF rank < 0 \/ rank >= Len(fresh)
          THEN [panic |-> TRUE, Votes |-> p.Votes]
          ELSE [panic |-> FALSE,
                Votes |-> Append(p.Votes,
                                 [UserID |-> userID,
                                  Rankings |-> [fresh EXCEPT ![rank + 1] = selection],
                                  VotedAt |-> 0])]

\* FinalizeVote, src/poll_logic.go:192-201
\* (the variant that leaves out the test for a repeated index)
RECURSIVE ValidateRankingsNoDuplicates(_, _, _, _)
ValidateRankingsNoDuplicates(rankings, j, n, seen) ==
  IF j > Len(rankings) THEN "nil"
  ELSE IF rankings[j] < 0 \/ rankings[j] >= n THEN "invalid ranking index"
  ELSE ValidateRankingsNoDuplicates(rankings, j + 1, n, seen)

\* FinalizeVote, src/poll_logic.go:192-201: the check of one ranking, slot by
\* slot from slot j on, seen being the indices met so far
RECURSIVE ValidateRankings(_, _, _, _)
ValidateRankings(rankings, j, n, seen) ==
  IF j > Len(rankings) THEN "nil"
  ELSE IF rankings[j] < 0 \/ rankings[j] >= n THEN "invalid ranking index"
  ELSE IF rankings[j] \in seen THEN "duplicate ranking detected"
  ELSE ValidateRankings(rankings, j + 1, n, seen \cup {rankings[j]})

\* FinalizeVote, src/poll_logic.go:184-206
\* (the variant that leaves out the test of the Vote's user)
RECURSIVE FinalizeLoopAnyUser(_, _, _, _, _)
FinalizeLoopAnyUser(votes, i, n, userID, now) ==
  IF i > Len(votes) THEN [err |-> "nil", Votes |-> votes]
  ELSE IF Len(votes[i].Rankings) # n
       THEN [err |-> "must rank all submissions", Votes |-> votes]
  ELSE LET e == ValidateRankings(votes[i].Rankings, 1, n, {})
       IN IF e # "nil" THEN [err |-> e, Votes |-> votes]
          ELSE FinalizeLoopAnyUser([votes EXCEPT ![i].VotedAt = now], i + 1, n, userID, now)

\* FinalizeVote, src/poll_logic.go:184-206: the loop over the votes from
\* vote i on; every vote of the user is validated and stamped, the first
\* failure returns
RECURSIVE FinalizeLoop(_, _, _, _, _)
FinalizeLoop(votes, i, n, userID, now) ==
  IF i > Len(votes) THEN [err |-> "nil", Votes |-> votes]
  ELSE IF votes[i].UserID # userID THEN FinalizeLoop(votes, i + 1, n, userID, now)
  ELSE IF Len(votes[i].Rankings) # n
       THEN [err |-> "must rank all submissions", Votes |-> votes]
  ELSE LET e == ValidateRankings(votes[i].Rankings, 1, n, {})
       IN IF e # "nil" THEN [err |-> e, Votes |-> votes]
          ELSE FinalizeLoop([votes EXCEPT ![i].VotedAt = now], i + 1, n, userID, now)

\* FinalizeVote, src/poll_logic.go:180-207
FinalizeVote(p, userID, now) ==
  IF p.Phase # PhaseVoting
  THEN [err |-> "poll is not in voting phase", Votes |-> p.Votes]
  ELSE FinalizeLoop(p.Votes, 1, Len(p.Submissions), userID, now)

\* the outcome of a handler: the poll it leaves, the notices it sent, and
\* whether it panicked
Outcome(p, notices) == [poll |-> p, notices |-> notices, panic |-> FALSE]

\* HandleSubmitButton, src/main.go:345-406
HandleSubmitButton(p) ==
  IF p.Phase # PhaseSubmission
  THEN Outcome(p, <<"This poll is no longer accepting submissions.">>)
  ELSE IF Len(p.Submissions) >= MaxSubmissions
  THEN Outcome(p, <<"Maximum number of submissions has been reached.">>)
  ELSE Outcome(p, <<"modal">>)

\* HandleLockButton, src/main.go:409-429
\* (the variant that leaves out the test for an empty poll)
HandleLockButtonEmpty(p, userID) ==
  IF userID # p.CreatorID
  THEN Outcome(p, <<"Only the poll creator can lock the poll early.">>)
  ELSE IF p.Phase # PhaseSubmission
  THEN Outcome(p, <<"This poll is not in the submission phase.">>)
  ELSE Outcome([p EXCEPT !.Phase = PhaseVoting], <<>>)

\* HandleLockButton, src/main.go:409-429
\* (the variant that leaves out the test of the Phase)
HandleLockButtonAnyPhase(p, userID) ==
  IF userID # p.CreatorID
  THEN Outcome(p, <<"Only the poll creator can lock the poll early.">>)
  ELSE IF Len(p.Submissions) = 0
  THEN Outcome(p, <<"Cannot lock poll with no submissions.">>)
  ELSE Outcome([p EXCEPT !.Phase = PhaseVoting], <<>>)

HandleLockButton(p, userID) ==
  IF userID # p.CreatorID
  THEN Outcome(p, <<"Only the poll creator can lock the poll early.">>)
  ELSE IF p.Phase # PhaseSubmission
  THEN Outcome(p, <<"This poll is not in the submission phase.">>)
  ELSE IF Len(p.Submissions) = 0
  THEN Outcome(p, <<"Cannot lock poll with no submissions.">>)
  ELSE Outcome([p EXCEPT !.Phase = PhaseVoting], <<>>)

\* HandleVoteButton, src/main.go:432-456
HandleVoteButton(p) ==
  IF p.Phase # PhaseVoting
  THEN Outcome(p, <<"This poll is not currently accepting votes.">>)
  ELSE IF Len(p.Submissions) = 0
  THEN Outcome(p, <<"There are no submissions to vote on.">>)
  ELSE Outcome(p, <<"vote form">>)

\* HandleEndButton, src/main.go:459-475
\* (the variant that leaves out the test of the creator)
HandleEndButtonAnyone(p, userID) ==
  IF p.Phase # PhaseVoting
  THEN Outcome(p, <<"This poll is not in the voting phase.">>)
  ELSE Outcome([p EXCEPT !.Phase = PhaseCompleted], <<>>)

\* HandleEndButton, src/main.go:459-475
HandleEndButton(p, userID) ==
  IF userID # p.CreatorID
  THEN Outcome(p, <<"Only the poll creator can end voting early.">>)
  ELSE IF p.Phase # PhaseVoting
  THEN Outcome(p, <<"This poll is not in the voting phase.">>)
  ELSE Outcome([p EXCEPT !.Phase = PhaseCompleted], <<>>)

\* the member's name, i.Member.User.Username
UsernameOf(userID) == userID \o "#0001"

\* getModalField, src/poll_render.go:258-269: what the member typed into
\* the field of the modal; one member gives a link, the other leaves the
\* optional field empty
getModalField(userID, fieldID) ==
  CASE fieldID = "game_name" -> "game of " \o userID
    [] fieldID = "game_description" -> "about it"
    [] fieldID = "game_link" -> IF userID = Users[1] THEN "https://g.example" ELSE ""
    [] OTHER -> ""

\* the Submission appended by HandleSubmitModal, src/main.go:490-497
NewSubmission(userID, now) ==
  [UserID |-> userID,
   Username |-> UsernameOf(userID),
   GameName |-> getModalField(userID, "game_name"),
   Description |-> getModalField(userID, "game_description"),
   Link |-> getModalField(userID, "game_link"),
   SubmittedAt |-> now]

\* HandleSubmitModal, src/main.go:478-505
\* (the variant that leaves out the test of the submission count)
HandleSubmitModalNoCap(p, userID, now) ==
  IF p.Phase # PhaseSubmission
  THEN Outcome(p, <<"Failed to submit game: poll is not in submission phase">>)
  ELSE Outcome([p EXCEPT !.Submissions =
                  Append(p.Submissions, NewSubmission(userID, now))],
               <<"Successfully submitted">>)

\* (the variant that leaves out the test of the Phase)
HandleSubmitModalAnyPhase(p, userID, now) ==
  IF Len(p.Submissions) >= MaxSubmissions
  THEN Outcome(p, <<"Failed to submit game: too many games are already submitted">>)
  ELSE Outcome([p EXCEPT !.Submissions =
                  Append(p.Submissions, NewSubmission(userID, now))],
               <<"Successfully submitted">>)

\* HandleSubmitModal, src/main.go:478-505
HandleSubmitModal(p, userID, now) ==
  IF p.Phase # PhaseSubmission
  THEN Outcome(p, <<"Failed to submit game: poll is not in submission phase">>)
  ELSE IF Len(p.Submissions) >= MaxSubmissions
  THEN Outcome(p, <<"Failed to submit game: too many games are already submitted">>)
  ELSE Outcome([p EXCEPT !.Submissions =
                  Append(p.Submissions, NewSubmission(userID, now))],
               <<"Successfully submitted">>)

\* the values a select menu interaction may carry, and strconv.Atoi of them
DigitStrings == <<"0", "1", "2", "3", "4", "5">>

ValueStrings == {DigitStrings[k + 1] : k \in 0..MaxSubmissions} \cup {"x"}

Atoi(str) ==
  IF \E k \in 1..Len(DigitStrings) : DigitStrings[k] = str
  THEN [err |-> FALSE, n |-> (CHOOSE k \in 1..Len(DigitStrings) : DigitStrings[k] = str) - 1]
  ELSE [err |-> TRUE, n |-> 0]

\* HandleVoteSelectMenu, src/main.go:508-530; values is the Values of the
\* interaction
HandleVoteSelectMenu(p, userID, rankPosition, values) ==
  IF Len(values) = 0 THEN Outcome(p, <<"deferred">>)
  ELSE IF Atoi(values[1]).err THEN Outcome(p, <<"deferred">>)
  ELSE LET up == UpsertVote(p, userID, rankPosition, Atoi(values[1]).n)
       IN [poll |-> [p EXCEPT !.Votes = up.Votes],
           notices |-> <<"deferred">>,
           panic |-> up.panic]

\* HandleVoteSubmitButton, src/main.go:533-568
HandleVoteSubmitButton(p, userID, now) ==
  LET unexpected == IF VoteIndex(p.Votes, userID, 1) = 0
                    THEN <<"Unexpected voter">> ELSE <<>>
      fin == FinalizeVote(p, userID, now)
  IN IF fin.err # "nil"
     THEN Outcome(p, unexpected \o <<"Failed to record vote: " \o fin.err>>)
     ELSE Outcome([p EXCEPT !.Votes = fin.Votes],
                  unexpected \o <<"Vote recorded successfully!">>)

\* handleFormEvent, src/main.go:299-314: the dispatch on the kind of the
\* token, under the poll's lock
Dispatch(p, kind, userID, rank, values, now) ==
  CASE kind = SubmitModal -> HandleSubmitModal(p, userID, now)
    [] kind = VoteButton -> HandleVoteButton(p)
    [] kind = SubmitButton -> HandleSubmitButton(p)
    [] kind = VoteSelect -> HandleVoteSelectMenu(p, userID, rank, values)
    [] kind = LockButton -> HandleLockButton(p, userID)
    [] kind = EndButton -> HandleEndButton(p, userID)
    [] kind = VoteSubmit -> HandleVoteSubmitButton(p, userID, now)
    [] OTHER -> Outcome(p, <<>>)

(***************************************************************************)
(* Persistence, src/unnamed/part_002:310-351.                              *)
(***************************************************************************)
\* time.Time.MarshalJSON and UnmarshalJSON: the instant is written out in
\* characters and read back
FormatTime(t) == Itoa(t)

ParseTime(str) == strconvAtoi(str).n

\* json.Marshal of a Submission, src/unnamed/part_002:229-236: the field
\* link is tagged omitempty and left out when empty
MarshalSubmission(sub) ==
  LET tagged == [user_id |-> sub.UserID,
                 username |-> sub.Username,
                 game_name |-> sub.GameName,
                 description |-> sub.Description,
                 link |-> sub.Link,
                 submitted_at |-> FormatTime(sub.SubmittedAt)]
  IN [k \in (DOMAIN tagged) \ (IF sub.Link = "" THEN {"link"} ELSE {}) |-> tagged[k]]

\* json.Unmarshal of a Submission: an absent field keeps the zero value
UnmarshalSubmission(j) ==
  [UserID |-> j.user_id,
   Username |-> j.username,
   GameName |-> j.game_name,
   Description |-> j.description,
   Link |-> IF "link" \in DOMAIN j THEN j.link ELSE "",
   SubmittedAt |-> ParseTime(j.submitted_at)]

\* an int as a JSON number, and read back
FormatInt(n) == IF n < 0 THEN <<"-">> \o Itoa(0 - n) ELSE Itoa(n)

ParseInt(str) ==
  IF Len(str) > 0 /\ str[1] = "-" THEN 0 - strconvAtoi(Tail(str)).n
  ELSE strconvAtoi(str).n

\* json.Marshal of a Vote, src/unnamed/part_002:239-243
MarshalVote(vote) ==
  [user_id |-> vote.UserID,
   rankings |-> [i \in 1..Len(vote.Rankings) |-> FormatInt(vote.Rankings[i])],
   voted_at |-> FormatTime(vote.VotedAt)]

UnmarshalVote(j) ==
  [UserID |-> j.user_id,
   Rankings |-> [i \in 1..Len(j.rankings) |-> ParseInt(j.rankings[i])],
   VotedAt |-> ParseTime(j.voted_at)]

\* json.MarshalIndent of one Poll, src/unnamed/part_002:246-259
\* (the variant in which ChannelID is not written)
MarshalPollNoChannel(p) ==
  [id |-> p.ID,
   guild_id |-> p.GuildID,
   creator_id |-> p.CreatorID,
   phase |-> p.Phase,
   submissions |-> [i \in 1..Len(p.Submissions) |-> MarshalSubmission(p.Submissions[i])],
   votes |-> [i \in 1..Len(p.Votes) |-> MarshalVote(p.Votes[i])],
   submission_end_time |-> FormatTime(p.EndTime),
   created_at |-> FormatTime(p.CreatedAt),
   Interaction |-> p.Interaction,
   MessageID |-> p.MessageID]

\* json.MarshalIndent of one Poll, src/unnamed/part_002:246-259: the tagged
\* fields under their JSON names, the exported fields without a tag under
\* their own; mut is not exported and not written
MarshalPoll(p) ==
  [id |-> p.ID,
   guild_id |-> p.GuildID,
   channel_id |-> p.ChannelID,
   creator_id |-> p.CreatorID,
   phase |-> p.Phase,
   submissions |-> [i \in 1..Len(p.Submissions) |-> MarshalSubmission(p.Submissions[i])],
   votes |-> [i \in 1..Len(p.Votes) |-> MarshalVote(p.Votes[i])],
   submission_end_time |-> FormatTime(p.EndTime),
   created_at |-> FormatTime(p.CreatedAt),
   Interaction |-> p.Interaction,
   MessageID |-> p.MessageID]

\* json.Unmarshal of one Poll: an absent field keeps the zero value
UnmarshalPoll(j) ==
  [ID |-> j.id,
   GuildID |-> j.guild_id,
   ChannelID |-> IF "channel_id" \in DOMAIN j THEN j.channel_id ELSE "",
   CreatorID |-> j.creator_id,
   Phase |-> j.phase,
   Submissions |-> [i \in 1..Len(j.submissions) |-> UnmarshalSubmission(j.submissions[i])],
   Votes |-> [i \in 1..Len(j.votes) |-> UnmarshalVote(j.votes[i])],
   EndTime |-> ParseTime(j.submission_end_time),
   CreatedAt |-> ParseTime(j.created_at),
   Interaction |-> j.Interaction,
   MessageID |-> j.MessageID]

\* the outcomes of os.WriteFile: written, failed before the file was
\* opened, failed after it was truncated
SaveOutcomes == {"ok", "unchanged", "partial"}

\* the outcomes of a disk whose writes succeed
DiskWrites == {"ok"}

\* the retention window of the earlier draft of SaveToFile,
\* src/unnamed/part_002:110: 7 days, in hours
RetentionWindow == 168

\* the clock readings of a save: at once, and when the window has passed
\* since the end time of a poll created at one of the Times for an hour
SaveTimes == Times \cup {t + 1 + RetentionWindow + 1 : t \in Times}

\* src/unnamed/part_002:110: poll.EndTime.Before(now - 7 days)
Expired(p, now) == p.EndTime < now - RetentionWindow

\* the loop of the other draft of SaveToFile, src/unnamed/part_002:108-113:
\* the map ps.polls after the expired polls were deleted from it
PurgeExpired(ps, now) == [id \in {k \in DOMAIN ps : ~Expired(ps[k], now)} |-> ps[id]]

\* SaveToFile of the other draft, src/unnamed/part_002:104-127, called when
\* the window has passed: the map is purged before it is written
SaveToFilePurged(ps, old, outcome) ==
  LET now == CHOOSE t \in SaveTimes : \A u \in SaveTimes : u <= t
      kept == PurgeExpired(ps, now)
  IN CASE outcome = "ok" ->
            [kind |-> "json", polls |-> [id \in DOMAIN kept |-> MarshalPoll(kept[id])]]
       [] outcome = "unchanged" -> old
       [] OTHER -> PartialFile

\* SaveToFile, src/unnamed/part_002:310-326
SaveToFile(ps, old, outcome) ==
  CASE outcome = "ok" -> [kind |-> "json", polls |-> [id \in DOMAIN ps |-> MarshalPoll(ps[id])]]
    [] outcome = "unchanged" -> old
    [] OTHER -> PartialFile

\* LoadFromFile, src/unnamed/part_002:329-351, into the registry ps
\* (the variant that takes a missing file for a failure)
LoadFromFileStrict(ps, f) ==
  CASE f.kind = "json" ->
         [err |-> "nil", polls |-> [id \in DOMAIN f.polls |-> UnmarshalPoll(f.polls[id])]]
    [] f.kind = "unreadable" -> [err |-> "failed to read polls file", polls |-> ps]
    [] f.kind = "absent" -> [err |-> "failed to read polls file", polls |-> ps]
    [] OTHER -> [err |-> "failed to unmarshal polls", polls |-> ps]

\* the error returned and the registry left: a missing file is no error,
\* and ps.polls is assigned only after json.Unmarshal succeeded
LoadFromFile(ps, f) ==
  CASE f.kind = "json" ->
         [err |-> "nil", polls |-> [id \in DOMAIN f.polls |-> UnmarshalPoll(f.polls[id])]]
    [] f.kind = "absent" -> [err |-> "nil", polls |-> ps]
    [] f.kind = "unreadable" -> [err |-> "failed to read polls file", polls |-> ps]
    [] OTHER -> [err |-> "failed to unmarshal polls", polls |-> ps]

\* NewPollState, src/unnamed/part_002:268-272
NewPollState == [id \in {} |-> 0]

(***************************************************************************)
(* The handlers as actions.  The handler of an interaction holds the       *)
(* poll's lock from the lookup to its return, so it is one step.           *)
(***************************************************************************)
\* handleFormEvent, src/main.go:290-342
\* (the variant that leaves out the test of GetPoll's ok: the nil Poll is
\* locked, a nil pointer dereference)
handleFormEventUnchecked(ps, kind, pollID, userID, rank, values, now) ==
  IF pollID \notin DOMAIN ps
  THEN [polls |-> ps, notices |-> <<>>, panic |-> TRUE]
  ELSE LET out == Dispatch(ps[pollID], kind, userID, rank, values, now)
       IN [polls |-> [ps EXCEPT ![pollID] = out.poll],
           notices |-> out.notices,
           panic |-> out.panic]

\* handleFormEvent, src/main.go:290-342, on the registry ps: the poll is
\* looked up and, under its lock, the handler of the token's kind runs
handleFormEvent(ps, kind, pollID, userID, rank, values, now) ==
  IF pollID \notin DOMAIN ps
  THEN [polls |-> ps, notices |-> <<"Poll not found or has expired.">>, panic |-> FALSE]
  ELSE LET out == Dispatch(ps[pollID], kind, userID, rank, values, now)
       IN [polls |-> [ps EXCEPT ![pollID] = out.poll],
           notices |-> out.notices,
           panic |-> out.panic]

\* RegisterPollHandlers, src/main.go:268-288
\* (the variant that puts the registry back when the save failed)
RegisterPollHandlersRollback(ps, f, lg, kind, pollID, userID, rank, values, now, saved) ==
  LET out == handleFormEvent(ps, kind, pollID, userID, rank, values, now)
  IN IF out.panic
     THEN [polls |-> ps, file |-> f, logged |-> lg, crashed |-> TRUE]
     ELSE [polls |-> IF saved = "ok" THEN out.polls ELSE ps,
           file |-> SaveToFile(out.polls, f, saved),
           logged |-> IF saved = "ok" THEN lg
                      ELSE [msg |-> "failed to save polls.json",
                            id |-> [Kind |-> kind, PollID |-> pollID, Rank |-> rank]],
           crashed |-> FALSE]

\* RegisterPollHandlers, src/main.go:268-288, on the registry ps, the file
\* f and the log lg: the event is handled and the registry saved, an error
\* of the save is logged with the custom ID; a panic of the handler ends
\* the process before the save
RegisterPollHandlers(ps, f, lg, kind, pollID, userID, rank, values, now, saved) ==
  LET out == handleFormEvent(ps, kind, pollID, userID, rank, values, now)
  IN IF out.panic
     THEN [polls |-> ps, file |-> f, logged |-> lg, crashed |-> TRUE]
     ELSE [polls |-> out.polls,
           file |-> SaveToFile(out.polls, f, saved),
           logged |-> IF saved = "ok" THEN lg
                      ELSE [msg |-> "failed to save polls.json",
                            id |-> [Kind |-> kind, PollID |-> pollID, Rank |-> rank]],
           crashed |-> FALSE]

\* the callback of an interaction as a step of the process
HandleInteraction(kind, pollID, userID, rank, values, now, saved) ==
  /\ ~crashed
  /\ LET r == RegisterPollHandlers(polls, file, logged, kind, pollID, userID, rank,
                                   values, now, saved)
     IN /\ polls' = r.polls
        /\ file' = r.file
        /\ logged' = r.logged
        /\ crashed' = r.crashed
  /\ UNCHANGED <<tallyVars, codecVars, lockVars>>

\* the inputs a handler does not read
NoRank == 0

NoValues == <<>>

NoTime == CHOOSE t \in Times : TRUE

SubmitModalEvent ==
  \E pollID \in EventPollIDs, userID \in Actors, now \in Times, saved \in DiskWrites :
    HandleInteraction(SubmitModal, pollID, userID, NoRank, NoValues, now, saved)

SubmitButtonEvent ==
  \E pollID \in EventPollIDs, userID \in Actors, saved \in DiskWrites :
    HandleInteraction(SubmitButton, pollID, userID, NoRank, NoValues, NoTime, saved)

LockButtonEvent ==
  \E pollID \in EventPollIDs, userID \in Actors, saved \in DiskWrites :
    HandleInteraction(LockButton, pollID, userID, NoRank, NoValues, NoTime, saved)

VoteButtonEvent ==
  \E pollID \in EventPollIDs, userID \in Actors, saved \in DiskWrites :
    HandleInteraction(VoteButton, pollID, userID, NoRank, NoValues, NoTime, saved)

VoteSelectEvent ==
  \E pollID \in EventPollIDs, userID \in Actors, rank \in 0..MaxSubmissions,
     values \in SeqsUpTo(ValueStrings, 1), saved \in DiskWrites :
    HandleInteraction(VoteSelect, pollID, userID, rank, values, NoTime, saved)

VoteSubmitEvent ==
  \E pollID \in EventPollIDs, userID \in Actors, now \in Times, saved \in DiskWrites :
    HandleInteraction(VoteSubmit, pollID, userID, NoRank, NoValues, now, saved)

EndButtonEvent ==
  \E pollID \in EventPollIDs, userID \in Actors, saved \in DiskWrites :
    HandleInteraction(EndButton, pollID, userID, NoRank, NoValues, NoTime, saved)

\* the channel the command is given in and the interaction it arrives as
ChannelOf(guildID) == "c-" \o guildID

InteractionOf(userID) == "/create-vgc-poll by " \o userID

\* AddPoll, src/unnamed/part_002:275-279
AddPoll(ps, poll) ==
  [id \in (DOMAIN ps) \cup {poll.ID} |-> IF id = poll.ID THEN poll ELSE ps[id]]

\* createPollHandler, src/polls.go:1038-1077, on the registry ps, the file
\* f and the log lg: the poll is created, added and the registry saved, an
\* error of the save is logged
createPollHandler(ps, f, lg, guildID, userID, now, saved) ==
  LET poll == CreatePoll(guildID, ChannelOf(guildID), userID, InteractionOf(userID), now, 1)
      added == AddPoll(ps, poll)
  IN [polls |-> added,
      file |-> SaveToFile(added, f, saved),
      logged |-> IF saved = "ok" THEN lg ELSE [msg |-> "failed to save poll state"]]

\* the callback of the command as a step of the process
CreatePollCommand(guildID, userID, now, saved) ==
  /\ ~crashed
  /\ LET r == createPollHandler(polls, file, logged, guildID, userID, now, saved)
     IN /\ polls' = r.polls
        /\ file' = r.file
        /\ logged' = r.logged
  /\ UNCHANGED <<crashed, tallyVars, codecVars, lockVars>>

\* run, src/main.go:37-42: the process starts again after a panic and loads
\* polls.json into a new registry
Restart ==
  /\ crashed
  /\ LET loaded == LoadFromFile(NewPollState, file)
     IN /\ polls' = loaded.polls
        /\ logged' = IF loaded.err = "nil" THEN logged
                     ELSE [msg |-> "failed to load poll state", error |-> loaded.err]
  /\ crashed' = FALSE
  /\ UNCHANGED <<file, tallyVars, codecVars, lockVars>>

Init ==
  /\ polls = NewPollState
  /\ file = NoFile
  /\ crashed = FALSE
  /\ sent = NoForm
  /\ customID = <<>>
  /\ parsed = NoForm
  /\ logged = NoLog
  /\ LocksIdle
  /\ tpc = "idle"
  /\ eliminated = {}
  /\ eliminationOrder = <<>>
  /\ counts = EmptyMap
  /\ results = <<>>
  /\ prevResults = {}

FormEvent ==
  \/ SubmitModalEvent
  \/ SubmitButtonEvent
  \/ LockButtonEvent
  \/ VoteButtonEvent
  \/ VoteSelectEvent
  \/ VoteSubmitEvent
  \/ EndButtonEvent

CreateEvent ==
  \E guildID \in Guilds, userID \in Actors, now \in Times, saved \in DiskWrites :
    CreatePollCommand(guildID, userID, now, saved)

Next == FormEvent \/ CreateEvent \/ Restart

Spec == Init /\ [][Next]_vars

(***************************************************************************)
(* The handlers over a disk whose writes can fail, for one member and one  *)
(* selection.  The process is started, by run, on whatever polls.json an   *)
(* earlier run left.                                                       *)
(***************************************************************************)
DiskUsers == {Users[1]}

DiskKinds == {SubmitModal, LockButton, VoteSelect, VoteSubmit, EndButton}

DiskFormEvent ==
  \E kind \in DiskKinds, pollID \in EventPollIDs, userID \in DiskUsers, now \in Times,
     saved \in SaveOutcomes :
    HandleInteraction(kind, pollID, userID, NoRank, <<"0">>, now, saved)

DiskCreateEvent ==
  \E guildID \in Guilds, userID \in DiskUsers, now \in Times, saved \in SaveOutcomes :
    CreatePollCommand(guildID, userID, now, saved)

\* run, src/main.go:88-99: on a signal the registry is saved, a failure
\* logged, and the process ends
Shutdown ==
  /\ ~crashed
  /\ \E saved \in SaveOutcomes :
       /\ file' = SaveToFile(polls, file, saved)
       /\ logged' = IF saved = "ok" THEN logged ELSE [msg |-> "failed to save poll state"]
  /\ crashed' = TRUE
  /\ UNCHANGED <<polls, tallyVars, codecVars, lockVars>>

InitDisk ==
  /\ polls = NewPollState
  /\ file \in {NoFile, PartialFile, UnreadableFile}
  /\ crashed = TRUE
  /\ sent = NoForm
  /\ customID = <<>>
  /\ parsed = NoForm
  /\ logged = NoLog
  /\ LocksIdle
  /\ tpc = "idle"
  /\ eliminated = {}
  /\ eliminationOrder = <<>>
  /\ counts = EmptyMap
  /\ results = <<>>
  /\ prevResults = {}

NextDisk == DiskFormEvent \/ DiskCreateEvent \/ Shutdown \/ Restart

SpecDisk == InitDisk /\ [][NextDisk]_vars

(***************************************************************************)
(* The callbacks as goroutines.  discordgo runs every callback on a        *)
(* goroutine of its own, so the steps of two callbacks interleave: what    *)
(* orders them is PollState.mut and the mut of each Poll.                  *)
(***************************************************************************)
\* most Poll objects allocated
MaxObjects == 2

\* the member whose interaction a goroutine serves
MemberOf(p) == IF p = "h2" THEN "u2" ELSE "u1"

\* the kinds of the tokens the goroutines serve
LockKinds == {SubmitModal, LockButton}

\* the callback of RegisterPollHandlers, src/main.go:269-281: the custom ID
\* of the interaction is parsed
Receive(p) ==
  /\ pc[p] = "idle"
  /\ \E kind \in LockKinds, pollID \in EventPollIDs :
       token' = [token EXCEPT ![p] = [Kind |-> kind, PollID |-> pollID]]
  /\ pc' = [pc EXCEPT ![p] = "GetPoll"]
  /\ UNCHANGED <<heap, registry, psmut, pollmut, target, local>>

\* GetPoll, src/unnamed/part_002:282-283: ps.mut.RLock()
GetPollRLock(p) ==
  /\ pc[p] = "GetPoll"
  /\ psmut.writer = "none"
  /\ psmut.pending = "none"
  /\ psmut' = [psmut EXCEPT !.readers = @ \cup {p}]
  /\ pc' = [pc EXCEPT ![p] = "GetPollRead"]
  /\ UNCHANGED <<heap, registry, pollmut, token, target, local>>

\* GetPoll, src/unnamed/part_002:282-287
\* (the variant that returns with ps.mut still read-locked)
GetPollHolding(p) ==
  /\ pc[p] = "GetPollRead"
  /\ LET id == token[p].PollID
     IN IF id \in DOMAIN registry
        THEN /\ target' = [target EXCEPT ![p] = registry[id]]
             /\ pc' = [pc EXCEPT ![p] = "Lock"]
        ELSE /\ target' = [target EXCEPT ![p] = 0]
             /\ pc' = [pc EXCEPT ![p] = "Save"]
  /\ UNCHANGED <<heap, registry, psmut, pollmut, token, local>>

\* GetPoll, src/unnamed/part_002:284-287: the map is read and the deferred
\* RUnlock runs at the return; handleFormEvent, src/main.go:291-296, returns
\* when the poll is not found
GetPoll(p) ==
  /\ pc[p] = "GetPollRead"
  /\ LET id == token[p].PollID
     IN IF id \in DOMAIN registry
        THEN /\ target' = [target EXCEPT ![p] = registry[id]]
             /\ pc' = [pc EXCEPT ![p] = "Lock"]
        ELSE /\ target' = [target EXCEPT ![p] = 0]
             /\ pc' = [pc EXCEPT ![p] = "Save"]
  /\ psmut' = [psmut EXCEPT !.readers = @ \ {p}]
  /\ UNCHANGED <<heap, registry, pollmut, token, local>>

\* handleFormEvent, src/main.go:297
\* (the variant that does not wait for the Poll's mut)
PollLockBarging(p) ==
  /\ pc[p] = "Lock"
  /\ pollmut' = [pollmut EXCEPT ![target[p]] = p]
  /\ pc' = [pc EXCEPT ![p] = "Read"]
  /\ UNCHANGED <<heap, registry, psmut, token, target, local>>

\* handleFormEvent, src/main.go:297: poll.mut.Lock()
PollLock(p) ==
  /\ pc[p] = "Lock"
  /\ pollmut[target[p]] = "none"
  /\ pollmut' = [pollmut EXCEPT ![target[p]] = p]
  /\ pc' = [pc EXCEPT ![p] = "Read"]
  /\ UNCHANGED <<heap, registry, psmut, token, target, local>>

\* the handler of the token's kind, src/main.go:299-342: what it reads of
\* the Poll
PollRead(p) ==
  /\ pc[p] = "Read"
  /\ local' = [local EXCEPT ![p] = heap[target[p]]]
  /\ pc' = [pc EXCEPT ![p] = "Write"]
  /\ UNCHANGED <<heap, registry, psmut, pollmut, token, target>>

\* the handler of the token's kind, src/main.go:299-342: what it assigns to
\* the Poll, from what it read
PollWrite(p) ==
  /\ pc[p] = "Write"
  /\ heap' = [heap EXCEPT ![target[p]] =
                Dispatch(local[p], token[p].Kind, MemberOf(p), NoRank, NoValues, NoTime).poll]
  /\ pc' = [pc EXCEPT ![p] = "Unlock"]
  /\ UNCHANGED <<registry, psmut, pollmut, token, target, local>>

\* handleFormEvent, src/main.go:298
\* (the variant that returns without poll.mut.Unlock())
PollUnlockKept(p) ==
  /\ pc[p] = "Unlock"
  /\ pc' = [pc EXCEPT ![p] = "Save"]
  /\ UNCHANGED <<heap, registry, psmut, pollmut, token, target, local>>

\* handleFormEvent, src/main.go:298: the deferred poll.mut.Unlock()
PollUnlock(p) ==
  /\ pc[p] = "Unlock"
  /\ pollmut' = [pollmut EXCEPT ![target[p]] = "none"]
  /\ pc' = [pc EXCEPT ![p] = "Save"]
  /\ UNCHANGED <<heap, registry, psmut, token, target, local>>

\* SaveToFile, src/unnamed/part_002:311: ps.mut.RLock()
SaveRLock(p) ==
  /\ pc[p] = "Save"
  /\ psmut.writer = "none"
  /\ psmut.pending = "none"
  /\ psmut' = [psmut EXCEPT !.readers = @ \cup {p}]
  /\ pc' = [pc EXCEPT ![p] = "SaveWrite"]
  /\ UNCHANGED <<heap, registry, pollmut, token, target, local>>

\* what a goroutine that does not hold the lock of Poll a can read of it:
\* the Poll as it is or, when a handler is assigning to it, the Poll as
\* the handler leaves it (the read races with the assignment)
RacyViews(a) ==
  {heap[a]} \cup
  {Dispatch(local[q], token[q].Kind, MemberOf(q), NoRank, NoValues, NoTime).poll :
     q \in {h \in Handlers : pc[h] = "Write" /\ target[h] = a}}

\* SaveToFile, src/unnamed/part_002:312-325: the polls of the map are
\* read, without their locks, and written out, and the deferred RUnlock
\* runs; the callback returns
SaveWrite(p) ==
  /\ pc[p] = "SaveWrite"
  /\ \E view \in [DOMAIN registry -> UNION {RacyViews(registry[id]) : id \in DOMAIN registry}] :
       /\ \A id \in DOMAIN registry : view[id] \in RacyViews(registry[id])
       /\ file' = SaveToFile(view, file, "ok")
  /\ psmut' = [psmut EXCEPT !.readers = @ \ {p}]
  /\ pc' = [pc EXCEPT ![p] = "idle"]
  /\ target' = [target EXCEPT ![p] = 0]
  /\ IF p \in Handlers
     THEN /\ token' = [token EXCEPT ![p] = NoForm]
          /\ local' = [local EXCEPT ![p] = NoForm]
     ELSE UNCHANGED <<token, local>>
  /\ UNCHANGED <<heap, registry, pollmut>>

\* createPollHandler, src/polls.go:1056-1057: CreatePoll allocates the Poll
AllocPoll ==
  /\ pc[Creator] = "idle"
  /\ Len(heap) < MaxObjects
  /\ \E guildID \in Guilds, now \in Times :
       heap' = Append(heap, CreatePoll(guildID, ChannelOf(guildID), MemberOf(Creator),
                                       InteractionOf(MemberOf(Creator)), now, 1))
  /\ pollmut' = Append(pollmut, "none")
  /\ target' = [target EXCEPT ![Creator] = Len(heap) + 1]
  /\ pc' = [pc EXCEPT ![Creator] = "AddPoll"]
  /\ UNCHANGED <<registry, psmut, token, local>>

\* AddPoll, src/unnamed/part_002:276: ps.mut.Lock() of a sync.RWMutex
\* first announces the writer, which keeps new readers out
AddPollAnnounce ==
  /\ pc[Creator] = "AddPoll"
  /\ psmut.writer = "none"
  /\ psmut.pending = "none"
  /\ psmut' = [psmut EXCEPT !.pending = Creator]
  /\ pc' = [pc EXCEPT ![Creator] = "AddPollWait"]
  /\ UNCHANGED <<heap, registry, pollmut, token, target, local>>

\* AddPoll, src/unnamed/part_002:276: ps.mut.Lock() returns when the
\* readers that held the lock have left
AddPollLock ==
  /\ pc[Creator] = "AddPollWait"
  /\ psmut.readers = {}
  /\ psmut' = [psmut EXCEPT !.writer = Creator, !.pending = "none"]
  /\ pc' = [pc EXCEPT ![Creator] = "AddPollWrite"]
  /\ UNCHANGED <<heap, registry, pollmut, token, target, local>>

\* AddPoll, src/unnamed/part_002:277-279: the Poll is put in the map under
\* its id and the deferred Unlock runs
AddPollWrite ==
  /\ pc[Creator] = "AddPollWrite"
  /\ LET id == heap[target[Creator]].ID
     IN registry' = [k \in (DOMAIN registry) \cup {id} |->
                       IF k = id THEN target[Creator] ELSE registry[k]]
  /\ psmut' = [psmut EXCEPT !.writer = "none"]
  /\ pc' = [pc EXCEPT ![Creator] = "Save"]
  /\ UNCHANGED <<heap, pollmut, token, target, local>>

HandlerStep ==
  \E p \in Handlers :
    /\ \/ Receive(p)
       \/ GetPollRLock(p)
       \/ GetPoll(p)
       \/ PollLock(p)
       \/ PollRead(p)
       \/ PollWrite(p)
       \/ PollUnlock(p)
    /\ UNCHANGED <<polls, tallyVars, handlerVars, codecVars, logged>>

CreatorStep ==
  /\ AllocPoll \/ AddPollAnnounce \/ AddPollLock \/ AddPollWrite
  /\ UNCHANGED <<polls, tallyVars, handlerVars, codecVars, logged>>

SaveStep ==
  \E p \in Procs :
    \/ SaveRLock(p) /\ UNCHANGED <<polls, tallyVars, handlerVars, codecVars, logged>>
    \/ SaveWrite(p) /\ UNCHANGED <<polls, tallyVars, crashed, codecVars, logged>>

InitLocks ==
  /\ polls = NewPollState
  /\ file = NoFile
  /\ crashed = FALSE
  /\ sent = NoForm
  /\ customID = <<>>
  /\ parsed = NoForm
  /\ logged = NoLog
  /\ LocksIdle
  /\ tpc = "idle"
  /\ eliminated = {}
  /\ eliminationOrder = <<>>
  /\ counts = EmptyMap
  /\ results = <<>>
  /\ prevResults = {}

NextLocks == HandlerStep \/ CreatorStep \/ SaveStep

SpecLocks == InitLocks /\ [][NextLocks]_vars

\* the callback of RegisterPollHandlers, src/main.go:269-281, for the modal
\* of a submission
ReceiveSubmit(p) ==
  /\ pc[p] = "idle"
  /\ \E pollID \in EventPollIDs :
       token' = [token EXCEPT ![p] = [Kind |-> SubmitModal, PollID |-> pollID]]
  /\ pc' = [pc EXCEPT ![p] = "GetPoll"]
  /\ UNCHANGED <<heap, registry, psmut, pollmut, target, local>>

\* the steps of goroutine p that wait for nothing
StepOf(p) ==
  \/ /\ \/ /\ p \in Handlers
           /\ ReceiveSubmit(p) \/ GetPoll(p) \/ PollRead(p) \/ PollWrite(p) \/ PollUnlock(p)
        \/ /\ p = Creator
           /\ AllocPoll \/ AddPollWrite
     /\ UNCHANGED <<polls, tallyVars, handlerVars, codecVars, logged>>
  \/ SaveWrite(p) /\ UNCHANGED <<polls, tallyVars, crashed, codecVars, logged>>

\* the steps of goroutine p that take or await a lock
LockStepOf(p) ==
  /\ \/ p \in Handlers /\ (GetPollRLock(p) \/ PollLock(p))
     \/ p = Creator /\ (AddPollAnnounce \/ AddPollLock)
     \/ SaveRLock(p)
  /\ UNCHANGED <<polls, tallyVars, handlerVars, codecVars, logged>>

NextLive == \E p \in Procs : StepOf(p) \/ LockStepOf(p)

SpecLive == InitLocks /\ [][NextLive]_vars

\* the scheduler runs every goroutine that can take a step, every call to
\* the transport and to the disk returns, and a goroutine that waits for a
\* sync.Mutex or a sync.RWMutex gets it when it is free again and again
\* (a waiter is handed the lock once it has waited for a millisecond)
FairLocks ==
  \A p \in Procs :
    /\ WF_vars(StepOf(p))
    /\ SF_vars(LockStepOf(p))

SpecLiveFair == SpecLive /\ FairLocks

(***************************************************************************)
(* The goroutines with the other draft of SaveToFile,                      *)
(* src/unnamed/part_002:104-127, which purges the map before writing it.   *)
(***************************************************************************)
\* src/unnamed/part_002:105: ps.mut.RLock()
PurgeRLock(p) ==
  /\ pc[p] = "Save"
  /\ psmut.writer = "none"
  /\ psmut.pending = "none"
  /\ psmut' = [psmut EXCEPT !.readers = @ \cup {p}]
  /\ pc' = [pc EXCEPT ![p] = "SavePurge"]
  /\ UNCHANGED <<heap, registry, pollmut, token, target, local, crashed>>

\* src/unnamed/part_002:108-113: the polls whose end time is more than the
\* window before time.Now() are deleted from ps.polls.  A delete while
\* another goroutine reads the map is a data race: the runtime may end the
\* process with "concurrent map read and map write", or not notice
SavePurge(p) ==
  /\ pc[p] = "SavePurge"
  /\ \E now \in SaveTimes :
       LET kept == {id \in DOMAIN registry : ~Expired(heap[registry[id]], now)}
       IN /\ registry' = [id \in kept |-> registry[id]]
          /\ IF kept # DOMAIN registry /\ psmut.readers \ {p} # {}
             THEN crashed' \in {FALSE, TRUE}
             ELSE crashed' = FALSE
  /\ pc' = [pc EXCEPT ![p] = "SaveWrite"]
  /\ UNCHANGED <<heap, psmut, pollmut, token, target, local>>

PurgingSaveStep ==
  \E p \in Procs :
    \/ PurgeRLock(p) /\ UNCHANGED <<polls, tallyVars, file, codecVars, logged>>
    \/ SavePurge(p) /\ UNCHANGED <<polls, tallyVars, file, codecVars, logged>>
    \/ SaveWrite(p) /\ UNCHANGED <<polls, tallyVars, crashed, codecVars, logged>>

\* the goroutines run as long as the process does
NextPurging == ~crashed /\ (HandlerStep \/ CreatorStep \/ PurgingSaveStep)

SpecPurging == InitLocks /\ [][NextPurging]_vars

(***************************************************************************)
(* The token codec, src/unnamed/part_002:353-383.  A Go string is the      *)
(* sequence of its characters.                                             *)
(***************************************************************************)
\* longest custom ID received that the program did not make itself
MaxTokenLen == 4
\* largest rank position encoded into a token
MaxTokenRank == 11
\* latest clock reading, in seconds, in a poll identity
MaxUnix == 10

\* the characters of the custom IDs that the program did not make
Alphabet == {"e", "_", "2", "-"}

\* the characters of the kinds, src/unnamed/part_002:353-363
KindChars(kind) ==
  CASE kind = SubmitModal -> <<"s", "u", "b", "m", "i", "t", "-", "m", "o", "d", "a", "l">>
    [] kind = VoteSelect -> <<"v", "o", "t", "e", "-", "s", "e", "l", "e", "c", "t">>
    [] kind = VoteSubmit -> <<"v", "o", "t", "e", "-", "s", "u", "b", "m", "i", "t">>
    [] kind = LockButton -> <<"l", "o", "c", "k">>
    [] kind = EndButton -> <<"e", "n", "d">>
    [] kind = VoteButton -> <<"v", "o", "t", "e">>
    [] kind = SubmitButton -> <<"s", "u", "b", "m", "i", "t">>

\* the guild identities, Discord snowflakes, as characters
GuildChars == {<<"7">>, <<"4", "2">>}

\* fmt.Sprintf("%s-%d", guildID, now.Unix()), src/poll_logic.go:163
PollIDChars(guildID, unix) == guildID \o <<"-">> \o Itoa(unix)

\* formID.String, src/unnamed/part_002:371-373
String(form) ==
  form.Kind \o <<"_">> \o form.PollID \o <<"_">> \o Itoa(form.Rank)

\* parseForm, src/unnamed/part_002:375-383
\* (the variant that splits at the dash)
parseFormDash(s) ==
  LET split == Split(s, "-")
  IN IF Len(split) < 2 THEN [tag |-> "panic"]
     ELSE [tag |-> "form",
           Kind |-> split[1],
           PollID |-> split[2],
           Rank |-> IF Len(split) = 3 THEN strconvAtoi(split[3]).n ELSE 0]

\* parseForm, src/unnamed/part_002:375-383: split[1] of a string without
\* delimiter is an index out of range, a panic
parseForm(s) ==
  LET split == Split(s, "_")
  IN IF Len(split) < 2 THEN [tag |-> "panic"]
     ELSE [tag |-> "form",
           Kind |-> split[1],
           PollID |-> split[2],
           Rank |-> IF Len(split) = 3 THEN strconvAtoi(split[3]).n ELSE 0]

\* the formIDs the program makes custom IDs of, src/poll_render.go:148-207
\* and src/main.go:360
FormIDs ==
  {[tag |-> "form", Kind |-> KindChars(kind), PollID |-> PollIDChars(g, unix), Rank |-> rank] :
     kind \in Kinds, g \in GuildChars, unix \in 0..MaxUnix, rank \in 0..MaxTokenRank}

\* src/poll_render.go:148-207: a component is rendered with the custom ID
\* of the formID sent
RenderToken ==
  /\ ~crashed
  /\ sent # NoForm
  /\ customID = <<>>
  /\ customID' = String(sent)
  /\ UNCHANGED <<polls, tallyVars, handlerVars, sent, parsed, logged, lockVars>>

\* RegisterPollHandlers, src/main.go:278-279: the custom ID of the
\* interaction is parsed; a panic of parseForm ends the process
ParseToken ==
  /\ ~crashed
  /\ parsed = NoForm
  /\ sent # NoForm => customID # <<>>
  /\ parsed' = parseForm(customID)
  /\ crashed' = (parsed'.tag = "panic")
  /\ UNCHANGED <<polls, tallyVars, file, sent, customID, logged, lockVars>>

\* the program is to render the token of one of its formIDs, or an
\* interaction arrives whose custom ID the program did not make
InitCodec ==
  /\ \/ sent \in FormIDs /\ customID = <<>>
     \/ sent = NoForm /\ customID \in SeqsUpTo(Alphabet, MaxTokenLen)
  /\ parsed = NoForm
  /\ logged = NoLog
  /\ LocksIdle
  /\ polls = NewPollState
  /\ file = NoFile
  /\ crashed = FALSE
  /\ tpc = "idle"
  /\ eliminated = {}
  /\ eliminationOrder = <<>>
  /\ counts = EmptyMap
  /\ results = <<>>
  /\ prevResults = {}

NextCodec == RenderToken \/ ParseToken

SpecCodec == InitCodec /\ [][NextCodec]_vars

(***************************************************************************)
(* Properties of the tally.                                                *)
(***************************************************************************)
Candidates == 0..(numCandidates - 1)

TallyVotes == TallyPoll.Votes

\* the entry is a candidate index
InRange(e) == e \in Candidates

\* vote i gives its count to candidate c when the candidates elim are out:
\* c stands at some slot and no earlier slot holds a candidate still in
IsChoice(i, c, elim) ==
  \E j \in 1..Len(TallyVotes[i].Rankings) :
    /\ TallyVotes[i].Rankings[j] = c
    /\ InRange(c) /\ c \notin elim
    /\ \A h \in 1..(j - 1) :
         ~(InRange(TallyVotes[i].Rankings[h]) /\ TallyVotes[i].Rankings[h] \notin elim)

\* vote i has no candidate left when the candidates elim are out
Exhausted(i, elim) ==
  \A j \in 1..Len(TallyVotes[i].Rankings) :
    ~(InRange(TallyVotes[i].Rankings[j]) /\ TallyVotes[i].Rankings[j] \notin elim)

\* the candidates eliminated before round r
ElimBefore(r) == {eliminationOrder[k] : k \in 1..(r - 1)}

\* the number of rounds run so far
Rounds == IF tpc = "done" /\ Len(eliminationOrder) > 0
          THEN Len(eliminationOrder) - 1 ELSE Len(eliminationOrder)

\* the elements of the set S of integers, in descending order
RECURSIVE Descending(_)
Descending(S) ==
  IF S = {} THEN <<>>
  ELSE LET m == CHOOSE x \in S : \A y \in S : y <= x
       IN <<m>> \o Descending(S \ {m})

RECURSIVE Ascending(_)
Ascending(S) ==
  IF S = {} THEN <<>>
  ELSE LET m == CHOOSE x \in S : \A y \in S : x <= y
       IN <<m>> \o Ascending(S \ {m})

\* C1: for every N >= 0 and every vote collection, CalculateResults
\* terminates (a call in its loop has eliminated a new candidate in each of
\* its rounds and has run fewer than N of them) and returns a sequence of
\* length N holding each index of [0,N) exactly once; the result is empty
\* exactly when N = 0.
ResultIsPermutation ==
  /\ tpc = "loop" =>
       /\ Len(eliminationOrder) = Cardinality(eliminated)
       /\ Len(eliminationOrder) <= numCandidates - 1
       /\ eliminated \subseteq Candidates
  /\ tpc = "done" =>
       /\ Len(results) = numCandidates
       /\ \A c \in Candidates :
            Cardinality({i \in 1..Len(results) : results[i] = c}) = 1
       /\ (results = <<>>) <=> (numCandidates = 0)

\* a call returned for three candidates and votes that hold a sentinel, an
\* out-of-range index and a repeated index
W_ResultIsPermutation ==
  /\ tpc = "done"
  /\ numCandidates = 3
  /\ \E i \in 1..Len(TallyVotes) : \E j \in 1..Len(TallyVotes[i].Rankings) :
       TallyVotes[i].Rankings[j] = -1
  /\ \E i \in 1..Len(TallyVotes) : \E j \in 1..Len(TallyVotes[i].Rankings) :
       TallyVotes[i].Rankings[j] = numCandidates
  /\ \E i \in 1..Len(TallyVotes) : \E j, h \in 1..Len(TallyVotes[i].Rankings) :
       j # h /\ TallyVotes[i].Rankings[j] = TallyVotes[i].Rankings[h] /\ InRange(TallyVotes[i].Rankings[j])

RoundEliminatesLowestMinimum ==
  [][ (tpc = "loop" /\ tpc' = "loop" /\ eliminationOrder' # eliminationOrder) =>
        \E c \in Candidates \ eliminated :
          /\ eliminated' = eliminated \cup {c}
          /\ eliminationOrder' = Append(eliminationOrder, c)
          /\ \A d \in Candidates \ eliminated :
               /\ Get(counts', c) <= Get(counts', d)
               /\ Get(counts', d) = Get(counts', c) => c <= d ]_vars

\* a round has just eliminated a candidate that was tied at the minimum
\* with a candidate of a larger index, the minimum not being zero
W_RoundEliminatesLowestMinimum ==
  /\ tpc = "loop"
  /\ Len(eliminationOrder) >= 1
  /\ LET last == eliminationOrder[Len(eliminationOrder)]
     IN /\ Get(counts, last) > 0
        /\ \E d \in Candidates \ eliminated : Get(counts, d) = Get(counts, last)

\* C4: with at least one vote and N >= 1 the ranking is the reverse of the
\* elimination order: the candidate never eliminated is at position 0 and the
\* candidate eliminated in round r (r = 1..N-1) is at position N-r.
ResultReversesElimination ==
  (tpc = "done" /\ numCandidates >= 1 /\ Len(TallyVotes) >= 1) =>
    /\ Len(results) = numCandidates
    /\ Cardinality(eliminated) = numCandidates - 1
    /\ results[1] \in Candidates \ eliminated
    /\ \A r \in 1..(numCandidates - 1) :
         /\ eliminationOrder[r] \in eliminated
         /\ results[(numCandidates - r) + 1] = eliminationOrder[r]

\* a call returned after two rounds
W_ResultReversesElimination ==
  /\ tpc = "done"
  /\ numCandidates = 3
  /\ Len(TallyVotes) >= 2
  /\ Cardinality(eliminated) = 2

\* C5: in each round every vote adds exactly one count to the first entry of
\* its ranking that is in [0,N) and names a candidate not yet eliminated, and
\* none when it has no such entry; sentinel, out-of-range and eliminated
\* entries never receive a count.
CountsAreFirstValidChoices ==
  (tpc = "loop" /\ Len(eliminationOrder) >= 1) =>
    LET elim == ElimBefore(Len(eliminationOrder))
    IN /\ DOMAIN counts \subseteq Candidates \ elim
       /\ \A c \in Candidates :
            Get(counts, c) = Cardinality({i \in 1..Len(TallyVotes) : IsChoice(i, c, elim)})
       /\ \A i \in 1..Len(TallyVotes) :
            \/ Exhausted(i, elim)
            \/ Cardinality({c \in Candidates : IsChoice(i, c, elim)}) = 1

\* the second round has counted a vote whose first entry was eliminated in
\* the first round for the candidate of a later entry
W_CountsAreFirstValidChoices ==
  /\ tpc = "loop"
  /\ Len(eliminationOrder) = 2
  /\ \E i \in 1..Len(TallyVotes) :
       /\ Len(TallyVotes[i].Rankings) >= 2
       /\ TallyVotes[i].Rankings[1] = eliminationOrder[1]
       /\ \E c \in DOMAIN counts : IsChoice(i, c, {eliminationOrder[1]})

\* C6: with N >= 1 submissions and no vote the result is 0,1,...,N-1.
NoVotesNaturalOrder ==
  (tpc = "done" /\ numCandidates >= 1 /\ Len(TallyVotes) = 0) =>
    results = [i \in 1..numCandidates |-> i - 1]

\* a call returned for three candidates and no vote
W_NoVotesNaturalOrder ==
  /\ tpc = "done"
  /\ numCandidates = 3
  /\ Len(TallyVotes) = 0
  /\ Len(results) = 3

\* round r gave no candidate any count: every vote was exhausted
RoundExhausted(r) == \A i \in 1..Len(TallyVotes) : Exhausted(i, ElimBefore(r))

\* C7 as stated: when a round gives no candidate any count, the candidates
\* not yet eliminated are placed in ascending index order and the tally stops.
ExhaustedRoundPlacesAscending ==
  (tpc = "done" /\ Len(TallyVotes) >= 1) =>
    \A r \in 1..(numCandidates - 1) :
      RoundExhausted(r) =>
        results = Ascending(Candidates \ ElimBefore(r))
                    \o Reverse(SubSeq(eliminationOrder, 1, r - 1))

\* C7 as amended: when a round gives no candidate any count the tally goes
\* on: that round and every later one eliminates the lowest remaining index,
\* so the candidates not yet eliminated at that round come out in descending
\* index order, ahead of the candidates eliminated before it.
ExhaustedRoundPlacesDescending ==
  (tpc = "done" /\ Len(TallyVotes) >= 1) =>
    \A r \in 1..(numCandidates - 1) :
      RoundExhausted(r) =>
        /\ Rounds = numCandidates - 1
        /\ results = Descending(Candidates \ ElimBefore(r))
                       \o Reverse(SubSeq(eliminationOrder, 1, r - 1))

\* a call returned whose first round found every vote exhausted
W_ExhaustedRoundPlacesDescending ==
  /\ tpc = "done"
  /\ numCandidates = 3
  /\ Len(TallyVotes) >= 2
  /\ RoundExhausted(1)

\* C8: with at least one vote and no vote holding an entry in [0,N), every
\* candidate counts zero in every round and the result is N-1,...,1,0.
InvalidVotesDescendingOrder ==
  (/\ tpc \in {"loop", "done"}
   /\ Len(TallyVotes) >= 1
   /\ \A i \in 1..Len(TallyVotes) : \A j \in 1..Len(TallyVotes[i].Rankings) :
        ~InRange(TallyVotes[i].Rankings[j])) =>
    /\ \A c \in Candidates : Get(counts, c) = 0
    /\ eliminationOrder = [k \in 1..Len(eliminationOrder) |-> k - 1]
    /\ tpc = "done" => results = [i \in 1..numCandidates |-> numCandidates - i]

\* a call returned for three candidates and two votes of sentinel and
\* out-of-range entries only
W_InvalidVotesDescendingOrder ==
  /\ tpc = "done"
  /\ numCandidates = 3
  /\ Len(TallyVotes) = 2
  /\ \A i \in 1..Len(TallyVotes) :
       /\ Len(TallyVotes[i].Rankings) >= 1
       /\ \A j \in 1..Len(TallyVotes[i].Rankings) : ~InRange(TallyVotes[i].Rankings[j])
  /\ results = <<2, 1, 0>>

\* C9: a candidate that is the first valid entry of strictly more than half
\* of the votes is at position 0 of the ranking.
MajorityWins ==
  (tpc = "done" /\ Len(TallyVotes) >= 1) =>
    \A c \in Candidates :
      2 * Cardinality({i \in 1..Len(TallyVotes) : IsChoice(i, c, {})}) > Len(TallyVotes) =>
        results[1] = c

\* a call returned for three candidates where candidate 2 has two of three
\* votes and another candidate the third
W_MajorityWins ==
  /\ tpc = "done"
  /\ numCandidates = 3
  /\ Len(TallyVotes) = 3
  /\ Cardinality({i \in 1..Len(TallyVotes) : IsChoice(i, 2, {})}) = 2
  /\ Cardinality({i \in 1..Len(TallyVotes) : IsChoice(i, 0, {})}) = 1
  /\ results[1] = 2

(***************************************************************************)
(* Properties of the Poll state machine.                                   *)
(***************************************************************************)
\* the step keeps every poll and leaves its Phase or moves it one forward
PhaseStepsForward ==
  \A id \in DOMAIN polls :
    /\ id \in DOMAIN polls'
    /\ polls'[id].Phase \in {polls[id].Phase, polls[id].Phase + 1}
    /\ polls'[id].Phase \in {PhaseSubmission, PhaseVoting, PhaseCompleted}

\* the step is the handling of a token of the given kind for a poll whose
\* Phase is one of phases
HandledIn(kind, phases) ==
  \E id \in DOMAIN polls, userID \in Actors :
    /\ polls[id].Phase \in phases
    /\ HandleInteraction(kind, id, userID, NoRank, NoValues, NoTime, "ok")

\* C10: over the handled actions on a Poll its Phase only moves Submission ->
\* Voting -> Completed, never back and never two phases in one step; a Lock
\* when Phase is Voting or Completed and an End when Phase is Submission or
\* Completed leave the Phase unchanged.
PhaseOnlyMovesForward ==
  [][ /\ PhaseStepsForward \/ ~FormEvent
      /\ (\A id \in DOMAIN polls : id \in DOMAIN polls' /\ polls'[id].Phase = polls[id].Phase)
         \/ ~HandledIn(LockButton, {PhaseVoting, PhaseCompleted})
      /\ (\A id \in DOMAIN polls : id \in DOMAIN polls' /\ polls'[id].Phase = polls[id].Phase)
         \/ ~HandledIn(EndButton, {PhaseSubmission, PhaseCompleted}) ]_vars

\* a poll has been locked and ended by its creator, with a vote cast
W_PhaseOnlyMovesForward ==
  \E id \in DOMAIN polls :
    /\ polls[id].Phase = PhaseCompleted
    /\ Len(polls[id].Submissions) = 2
    /\ Len(polls[id].Votes) >= 1

\* the handling of a token of the given kind for poll id in the current
\* state: the registry it leaves, the notices, whether it panicked
Handled(kind, id, userID, rank, values, now) ==
  handleFormEvent(polls, kind, id, userID, rank, values, now)

\* the handling leaves every poll of the registry but id as it is
OthersKept(out, id) ==
  /\ DOMAIN out.polls = DOMAIN polls
  /\ \A other \in DOMAIN polls \ {id} : out.polls[other] = polls[other]

\* C11: a Lock moves the Poll to Voting exactly when its Phase is
\* Submission, the actor is its creator and it holds at least one
\* submission, and then changes the Phase only; when one of the three fails
\* the Lock leaves Phase, submissions and votes as they are.
LockGuarded ==
  \A id \in DOMAIN polls, userID \in Actors :
    LET p == polls[id]
        out == Handled(LockButton, id, userID, NoRank, NoValues, NoTime)
        q == out.polls[id]
    IN /\ ~out.panic
       /\ OthersKept(out, id)
       /\ q.Submissions = p.Submissions
       /\ q.Votes = p.Votes
       /\ IF /\ p.Phase = PhaseSubmission
             /\ userID = p.CreatorID
             /\ Len(p.Submissions) >= 1
          THEN q.Phase = PhaseVoting
          ELSE q.Phase = p.Phase /\ Len(out.notices) = 1

\* a poll with a submission is in Submission: its creator's Lock moves it
\* to Voting, another actor's Lock is refused
W_LockGuarded ==
  \E id \in DOMAIN polls, userID \in Actors :
    /\ polls[id].Phase = PhaseSubmission
    /\ Len(polls[id].Submissions) >= 1
    /\ userID # polls[id].CreatorID
    /\ Handled(LockButton, id, polls[id].CreatorID, NoRank, NoValues, NoTime).polls[id].Phase
         = PhaseVoting
    /\ Handled(LockButton, id, userID, NoRank, NoValues, NoTime).notices
         = <<"Only the poll creator can lock the poll early.">>

\* C12: an End moves the Poll to Completed exactly when its Phase is Voting
\* and the actor is its creator, and then changes the Phase only; when one
\* of the two fails the End leaves Phase, submissions and votes as they are.
EndGuarded ==
  \A id \in DOMAIN polls, userID \in Actors :
    LET p == polls[id]
        out == Handled(EndButton, id, userID, NoRank, NoValues, NoTime)
        q == out.polls[id]
    IN /\ ~out.panic
       /\ OthersKept(out, id)
       /\ q.Submissions = p.Submissions
       /\ q.Votes = p.Votes
       /\ IF p.Phase = PhaseVoting /\ userID = p.CreatorID
          THEN q.Phase = PhaseCompleted
          ELSE q.Phase = p.Phase /\ Len(out.notices) = 1

\* a poll with a vote is in Voting: its creator's End completes it, another
\* actor's End is refused
W_EndGuarded ==
  \E id \in DOMAIN polls, userID \in Actors :
    /\ polls[id].Phase = PhaseVoting
    /\ Len(polls[id].Votes) >= 1
    /\ userID # polls[id].CreatorID
    /\ Handled(EndButton, id, polls[id].CreatorID, NoRank, NoValues, NoTime).polls[id].Phase
         = PhaseCompleted
    /\ Handled(EndButton, id, userID, NoRank, NoValues, NoTime).notices
         = <<"Only the poll creator can end voting early.">>

\* C13: no Poll ever holds more than MaxSubmissions submissions, and a
\* submission to a Poll that holds MaxSubmissions is refused and leaves the
\* Poll, its submission list included, as it is.
SubmissionsCapped ==
  \A id \in DOMAIN polls :
    /\ Len(polls[id].Submissions) <= MaxSubmissions
    /\ Len(polls[id].Submissions) = MaxSubmissions =>
         \A userID \in Actors, now \in Times :
           LET out == Handled(SubmitModal, id, userID, NoRank, NoValues, now)
           IN /\ ~out.panic
              /\ out.polls = polls
              /\ Len(out.notices) = 1
              /\ out.notices[1] # "Successfully submitted"

\* a poll in Submission holds MaxSubmissions submissions, by two submitters,
\* and one more is refused for the count
W_SubmissionsCapped ==
  \E id \in DOMAIN polls :
    /\ polls[id].Phase = PhaseSubmission
    /\ Len(polls[id].Submissions) = MaxSubmissions
    /\ \E i, j \in 1..MaxSubmissions :
         polls[id].Submissions[i].UserID # polls[id].Submissions[j].UserID
    /\ Handled(SubmitModal, id, "u1", NoRank, NoValues, NoTime).notices
         = <<"Failed to submit game: too many games are already submitted">>

\* the tokens that can arrive for a poll
Tokens ==
  [kind : Kinds, userID : Actors, rank : 0..MaxSubmissions,
   values : SeqsUpTo(ValueStrings, 1), now : Times]

\* the handling of token t for poll id in the current state
HandledToken(id, t) == Handled(t.kind, id, t.userID, t.rank, t.values, t.now)

\* token t for poll id is refused or changes the submissions by appending
\* one, in Submission phase, to the earlier ones
TokenAppendsOnly(id, t) ==
  LET p == polls[id]
      out == HandledToken(id, t)
  IN out.panic
     \/ out.polls[id].Submissions = p.Submissions
     \/ /\ t.kind = SubmitModal
        /\ p.Phase = PhaseSubmission
        /\ out.polls[id].Phase = PhaseSubmission
        /\ out.polls[id].Submissions
             = Append(p.Submissions, NewSubmission(t.userID, t.now))
        /\ out.polls[id].Votes = p.Votes

\* the step keeps the submissions of every poll that has left Submission
SubmissionsFixedStep ==
  \A id \in DOMAIN polls :
    polls[id].Phase # PhaseSubmission =>
      /\ id \in DOMAIN polls'
      /\ polls'[id].Submissions = polls[id].Submissions

\* C14: a submission is taken only while Phase is Submission and is appended
\* after the earlier ones, which keep their indices; no handled token of any
\* kind, and no restart of the process, changes the submissions of a Poll
\* whose Phase has left Submission, so the candidate indices and N are fixed
\* through Voting and Completed.
SubmissionsAppendOnly ==
  /\ [](\A id \in DOMAIN polls, t \in Tokens : TokenAppendsOnly(id, t))
  /\ [][SubmissionsFixedStep \/ CreateEvent]_vars

\* a poll left Submission with one submission of the two it may hold: a
\* further submission is refused for the Phase
W_SubmissionsAppendOnly ==
  \E id \in DOMAIN polls :
    /\ polls[id].Phase = PhaseVoting
    /\ Len(polls[id].Submissions) = 1
    /\ Len(polls[id].Submissions) < MaxSubmissions
    /\ Handled(SubmitModal, id, "u2", NoRank, NoValues, NoTime).notices
         = <<"Failed to submit game: poll is not in submission phase">>

(***************************************************************************)
(* Properties of the votes.                                                *)
(***************************************************************************)
\* the ranking holds every index of [0, n) once and nothing else
IsPermutation(rankings, n) ==
  /\ Len(rankings) = n
  /\ \A c \in 0..(n - 1) : \E j \in 1..n : rankings[j] = c

\* the place of userID's Vote in poll p, 0 when there is none
VoteOf(p, userID) == VoteIndex(p.Votes, userID, 1)

\* userID has a Vote in poll p whose ranking FinalizeVote is to reject: of
\* another length than the submission count, or with a slot outside [0, N),
\* or with an index twice
BadRanking(p, userID) ==
  /\ VoteOf(p, userID) > 0
  /\ LET r == p.Votes[VoteOf(p, userID)].Rankings
         n == Len(p.Submissions)
     IN \/ Len(r) # n
        \/ \E j \in 1..Len(r) : r[j] < 0 \/ r[j] >= n
        \/ \E j, k \in 1..Len(r) : j # k /\ r[j] = r[k]

\* C15: FinalizeVote returns an error and leaves every Vote of the Poll,
\* the user's ranking and timestamp included, as it is whenever Phase is not
\* Voting, or the user's ranking has another length than the submission
\* count, or a slot outside [0, N) (the sentinel -1 too), or an index twice;
\* the vote-submit action then answers with the error and changes nothing.
FinalizeRejectsInvalid ==
  \A id \in DOMAIN polls, userID \in Actors, now \in Times :
    LET p == polls[id]
        fin == FinalizeVote(p, userID, now)
        out == Handled(VoteSubmit, id, userID, NoRank, NoValues, now)
    IN (p.Phase # PhaseVoting \/ BadRanking(p, userID)) =>
         /\ fin.err # "nil"
         /\ fin.Votes = p.Votes
         /\ ~out.panic
         /\ out.polls = polls
         /\ out.notices[Len(out.notices)] = "Failed to record vote: " \o fin.err
         /\ \A k \in 1..Len(out.notices) : out.notices[k] # "Vote recorded successfully!"

\* a poll in Voting holds a ranking shorter than the submission count and a
\* ranking of the right length with an index twice; both are rejected, each
\* for its reason
W_FinalizeRejectsInvalid ==
  \E id \in DOMAIN polls, u, v \in Actors :
    LET p == polls[id]
    IN /\ p.Phase = PhaseVoting
       /\ VoteOf(p, u) > 0
       /\ VoteOf(p, v) > 0
       /\ Len(p.Votes[VoteOf(p, u)].Rankings) < Len(p.Submissions)
       /\ p.Votes[VoteOf(p, v)].Rankings = <<0, 0>>
       /\ FinalizeVote(p, u, NoTime).err = "must rank all submissions"
       /\ FinalizeVote(p, v, NoTime).err = "duplicate ranking detected"

\* C16: FinalizeVote called in Voting phase for a user without a Vote in the
\* Poll returns an error, and the vote-submit action sends that user no
\* success answer.
FinalizeRequiresVote ==
  \A id \in DOMAIN polls, userID \in Actors, now \in Times :
    LET p == polls[id]
        out == Handled(VoteSubmit, id, userID, NoRank, NoValues, now)
    IN (p.Phase = PhaseVoting /\ VoteOf(p, userID) = 0) =>
         /\ FinalizeVote(p, userID, now).err # "nil"
         /\ \A k \in 1..Len(out.notices) : out.notices[k] # "Vote recorded successfully!"

\* C17: a FinalizeVote that succeeds for a user with a Vote changes the
\* finalize timestamp of that Vote and nothing else: its ranking, the Votes
\* of the other users, the submissions and the Phase are as before, and the
\* finalized ranking is a permutation of [0, N).
FinalizeStampsOnly ==
  \A id \in DOMAIN polls, userID \in Actors, now \in Times :
    LET p == polls[id]
        i == VoteOf(p, userID)
        fin == FinalizeVote(p, userID, now)
        out == Handled(VoteSubmit, id, userID, NoRank, NoValues, now)
    IN (i > 0 /\ fin.err = "nil") =>
         /\ fin.Votes = [p.Votes EXCEPT ![i].VotedAt = now]
         /\ IsPermutation(p.Votes[i].Rankings, Len(p.Submissions))
         /\ ~out.panic
         /\ OthersKept(out, id)
         /\ out.polls[id] = [p EXCEPT !.Votes[i].VotedAt = now]
         /\ out.notices = <<"Vote recorded successfully!">>

\* a poll in Voting with two submissions and two votes: one vote has been
\* finalized and carries the time of it, the other, a full ranking too, has
\* not
W_FinalizeStampsOnly ==
  \E id \in DOMAIN polls :
    LET p == polls[id]
    IN /\ p.Phase = PhaseVoting
       /\ Len(p.Submissions) = 2
       /\ Len(p.Votes) = 2
       /\ \E i, j \in 1..2 :
            /\ p.Votes[i].VotedAt \in Times
            /\ p.Votes[j].VotedAt \notin Times
            /\ IsPermutation(p.Votes[i].Rankings, 2)
            /\ IsPermutation(p.Votes[j].Rankings, 2)
            /\ FinalizeVote(p, p.Votes[j].UserID, NoTime).err = "nil"

\* the rank positions and candidate indices UpsertVote is called with
RankPositions == (-1)..MaxSubmissions

Selections == (-1)..MaxSubmissions

\* the number of Votes of userID among votes
VotesOf(votes, userID) ==
  Cardinality({i \in 1..Len(votes) : votes[i].UserID = userID})

\* C18: UpsertVote is idempotent: for every poll state, user, rank position
\* and candidate index, a second UpsertVote with the arguments of a first
\* that returned leaves the Poll as the first left it, with exactly one
\* Vote of the user.
UpsertVoteIdempotent ==
  \A id \in DOMAIN polls, userID \in Actors, rank \in RankPositions, selection \in Selections :
    LET p == polls[id]
        once == UpsertVote(p, userID, rank, selection)
        twice == UpsertVote([p EXCEPT !.Votes = once.Votes], userID, rank, selection)
    IN ~once.panic =>
         /\ ~twice.panic
         /\ twice.Votes = once.Votes
         /\ VotesOf(twice.Votes, userID) = 1

\* a poll with two submissions where one user has a Vote and another has
\* none: for both the second UpsertVote changes nothing the first did
W_UpsertVoteIdempotent ==
  \E id \in DOMAIN polls, u, v \in Actors :
    LET p == polls[id]
        onceU == UpsertVote(p, u, 1, 0)
        onceV == UpsertVote(p, v, 1, 0)
    IN /\ Len(p.Submissions) = 2
       /\ VoteOf(p, u) > 0
       /\ VoteOf(p, v) = 0
       /\ ~onceU.panic /\ onceU.Votes # p.Votes
       /\ ~onceV.panic /\ Len(onceV.Votes) = Len(p.Votes) + 1
       /\ UpsertVote([p EXCEPT !.Votes = onceU.Votes], u, 1, 0).Votes = onceU.Votes
       /\ UpsertVote([p EXCEPT !.Votes = onceV.Votes], v, 1, 0).Votes = onceV.Votes

\* C19: in every reachable state, after any sequence of vote-select and
\* vote-submit actions of the users, the vote collection of a Poll holds at
\* most one Vote per user.
OneVotePerUser ==
  \A id \in DOMAIN polls :
    \A i, j \in 1..Len(polls[id].Votes) :
      polls[id].Votes[i].UserID = polls[id].Votes[j].UserID => i = j

\* two users have each chosen both slots of their rankings, one after the
\* other, and one of them has finalized: two Votes, one per user
W_OneVotePerUser ==
  \E id \in DOMAIN polls :
    LET p == polls[id]
    IN /\ Len(p.Votes) = 2
       /\ p.Votes[1].UserID # p.Votes[2].UserID
       /\ \A i \in 1..2 : Len(p.Votes[i].Rankings) = 2
                          /\ \A k \in 1..2 : p.Votes[i].Rankings[k] >= 0
       /\ \E i \in 1..2 : p.Votes[i].VotedAt \in Times

\* C20: an UpsertVote that returns, for a user without a Vote, appends one
\* Vote of that user whose ranking has the length of the submission count,
\* the candidate at slot rank and the sentinel -1 at every other slot; for a
\* user with a Vote it changes slot rank of that Vote only; in both cases
\* the Votes of the other users, the submissions and the Phase are as
\* before.
UpsertVoteFrame ==
  \A id \in DOMAIN polls, userID \in Actors, rank \in RankPositions, selection \in Selections :
    LET p == polls[id]
        i == VoteOf(p, userID)
        up == UpsertVote(p, userID, rank, selection)
        new == up.Votes[Len(up.Votes)]
    IN ~up.panic =>
         /\ \A k \in 1..Len(p.Votes) : k # i => up.Votes[k] = p.Votes[k]
         /\ IF i = 0
            THEN /\ Len(up.Votes) = Len(p.Votes) + 1
                 /\ new.UserID = userID
                 /\ Len(new.Rankings) = Len(p.Submissions)
                 /\ \A k \in 1..Len(new.Rankings) :
                      new.Rankings[k] = IF k = rank + 1 THEN selection ELSE -1
            ELSE /\ Len(up.Votes) = Len(p.Votes)
                 /\ up.Votes[i].UserID = userID
                 /\ up.Votes[i].VotedAt = p.Votes[i].VotedAt
                 /\ Len(up.Votes[i].Rankings) = Len(p.Votes[i].Rankings)
                 /\ \A k \in 1..Len(p.Votes[i].Rankings) :
                      up.Votes[i].Rankings[k]
                        = IF k = rank + 1 THEN selection ELSE p.Votes[i].Rankings[k]
         /\ \A str \in ValueStrings :
              (~Atoi(str).err /\ Atoi(str).n = selection) =>
                LET out == Handled(VoteSelect, id, userID, rank, <<str>>, NoTime)
                IN /\ ~out.panic
                   /\ OthersKept(out, id)
                   /\ out.polls[id] = [p EXCEPT !.Votes = up.Votes]

\* a poll in Voting with two submissions holds the Vote of one user, made
\* by a first selection (a sentinel is left in it), and no Vote of another:
\* the select menu changes one slot of the first and appends for the second
W_UpsertVoteFrame ==
  \E id \in DOMAIN polls, u, v \in Actors :
    LET p == polls[id]
        outU == Handled(VoteSelect, id, u, 1, <<"1">>, NoTime)
        outV == Handled(VoteSelect, id, v, 0, <<"1">>, NoTime)
    IN /\ p.Phase = PhaseVoting
       /\ Len(p.Submissions) = 2
       /\ Len(p.Votes) = 1
       /\ VoteOf(p, u) = 1
       /\ p.Votes[1].Rankings = <<0, -1>>
       /\ outU.polls[id].Votes = <<[p.Votes[1] EXCEPT !.Rankings = <<0, 1>>]>>
       /\ outV.polls[id].Votes
            = <<p.Votes[1], [UserID |-> v, Rankings |-> <<1, -1>>, VotedAt |-> 0]>>

\* C21: in every reachable state a Poll whose Phase is Submission holds no
\* Vote: no handled action, a vote-select arriving while Phase is
\* Submission included, creates a Vote before the Lock.
NoVotesInSubmission ==
  \A id \in DOMAIN polls :
    polls[id].Phase = PhaseSubmission => Len(polls[id].Votes) = 0

(***************************************************************************)
(* Properties of the registry.                                             *)
(***************************************************************************)
\* C29: a token of any kind naming a poll identity that is not in the
\* registry is answered as not found and leaves the registry, every Phase,
\* submission and vote in it, as it is.
UnknownPollChangesNothing ==
  \A t \in Tokens :
    UnknownPollID \notin DOMAIN polls =>
      LET out == HandledToken(UnknownPollID, t)
      IN /\ ~out.panic
         /\ out.polls = polls
         /\ out.notices = <<"Poll not found or has expired.">>

\* the registry holds a poll in Voting with a vote, and a lock token for
\* another identity comes from that poll's creator: it is answered as not
\* found
W_UnknownPollChangesNothing ==
  \E id \in DOMAIN polls :
    /\ id # UnknownPollID
    /\ polls[id].Phase = PhaseVoting
    /\ Len(polls[id].Votes) >= 1
    /\ Handled(EndButton, UnknownPollID, polls[id].CreatorID, NoRank, NoValues, NoTime).notices
         = <<"Poll not found or has expired.">>
    /\ Handled(EndButton, id, polls[id].CreatorID, NoRank, NoValues, NoTime).polls # polls

\* C30: CalculateResults is a pure read: in every Phase no step of a call,
\* the early returns, the rounds and the final reversal, changes the Poll:
\* its Phase, submissions and votes, every ranking slot included, are after
\* the step what they were before.
TallyIsPureRead == [][polls' = polls]_vars

\* a call has returned the ranking of a poll of two candidates in Voting
\* phase whose votes hold a sentinel and a ranked candidate, after a round
\* that eliminated a candidate
W_TallyIsPureRead ==
  /\ tpc = "done"
  /\ TallyPoll.Phase = PhaseVoting
  /\ Len(results) = 2
  /\ Len(eliminationOrder) = 2
  /\ \E i \in 1..Len(TallyPoll.Votes) :
       /\ Len(TallyPoll.Votes[i].Rankings) = 2
       /\ TallyPoll.Votes[i].Rankings[1] = -1
       /\ TallyPoll.Votes[i].Rankings[2] = eliminationOrder[1]

(***************************************************************************)
(* Properties of the token codec.                                          *)
(***************************************************************************)
\* C27: the token codec round-trips: for every kind of the vocabulary, every
\* poll identity <groupID>-<unixSeconds> and every rank position >= 0,
\* parseForm of the String() of the formID returns, without failing, the
\* same kind, poll identity and rank.
TokenRoundTrips ==
  (sent # NoForm /\ parsed # NoForm) => parsed = sent

\* the token of a vote-select of rank position 10, two digits, for a poll
\* of a guild of two digits made at second 10 has been parsed
W_TokenRoundTrips ==
  /\ sent # NoForm
  /\ sent.Kind = KindChars(VoteSelect)
  /\ sent.PollID = <<"4", "2", "-", "1", "0">>
  /\ sent.Rank = 10
  /\ customID = KindChars(VoteSelect) \o <<"_", "4", "2", "-", "1", "0", "_", "1", "0">>
  /\ parsed # NoForm

\* C28: token decoding is total: for every input string, one without
\* delimiter, of one field or of more than three fields included, parseForm
\* returns a formID without failing, whose kind and poll identity are the
\* first two fields and whose rank is the parsed third field, or 0 when
\* there is no third field.
ParseFormTotal ==
  parsed # NoForm =>
    LET split == Split(customID, "_")
    IN /\ parsed.tag = "form"
       /\ parsed.Kind = split[1]
       /\ Len(split) >= 2 => parsed.PollID = split[2]
       /\ parsed.Rank = IF Len(split) >= 3 THEN strconvAtoi(split[3]).n ELSE 0


\* C24: whatever the registry holds, loading what SaveToFile wrote gives a
\* registry with the same poll identities and, for each of them, the same
\* group, channel, creator, phase, submissions in order, votes (owner,
\* ranking, voted-at), end time and creation time
SaveLoadLossless ==
  LET written == SaveToFile(polls, file, "ok")
      loaded == LoadFromFile(NewPollState, written)
  IN /\ loaded.err = "nil"
     /\ DOMAIN loaded.polls = DOMAIN polls
     /\ \A id \in DOMAIN polls :
          LET p == polls[id]
              q == loaded.polls[id]
          IN /\ q.ID = p.ID
             /\ q.GuildID = p.GuildID
             /\ q.ChannelID = p.ChannelID
             /\ q.CreatorID = p.CreatorID
             /\ q.Phase = p.Phase
             /\ q.Submissions = p.Submissions
             /\ q.Votes = p.Votes
             /\ q.EndTime = p.EndTime
             /\ q.CreatedAt = p.CreatedAt

\* a registry just saved whose poll is in the voting phase with two
\* submissions, one with a link and one without, a finalised vote and a
\* vote with a position not yet ranked
W_SaveLoadLossless ==
  /\ ~crashed
  /\ file = SaveToFile(polls, file, "ok")
  /\ \E id \in DOMAIN polls :
       LET p == polls[id]
       IN /\ p.Phase = PhaseVoting
          /\ Len(p.Submissions) = 2
          /\ \E i, j \in 1..2 : p.Submissions[i].Link = "" /\ p.Submissions[j].Link # ""
          /\ \E i \in 1..Len(p.Votes) : p.Votes[i].VotedAt \in Times
          /\ \E i \in 1..Len(p.Votes) :
               \E k \in 1..Len(p.Votes[i].Rankings) : p.Votes[i].Rankings[k] < 0

\* the process was down and is started: run has called LoadFromFile
Started == crashed /\ ~crashed'

\* C25: LoadFromFile returns no error and leaves the registry as it was,
\* empty at startup, when polls.json does not exist; when the file cannot
\* be read or cannot be deserialized it returns an error and leaves the
\* registry as it was too
LoadTolerant ==
  /\ [](/\ LoadFromFile(polls, NoFile) = [err |-> "nil", polls |-> polls]
        /\ \A f \in {UnreadableFile, PartialFile} :
             /\ LoadFromFile(polls, f).err # "nil"
             /\ LoadFromFile(polls, f).polls = polls)
  /\ [][Started =>
          /\ file = NoFile => polls' = NewPollState /\ logged' = logged
          /\ file \in {UnreadableFile, PartialFile} =>
               /\ polls' = NewPollState
               /\ logged'.msg = "failed to load poll state"]_vars

\* the process runs on an empty registry after a load that failed on the
\* file a failed write had truncated
W_LoadTolerant ==
  /\ ~crashed
  /\ file = PartialFile
  /\ logged.msg = "failed to load poll state"
  /\ logged.error = "failed to unmarshal polls"
  /\ polls = NewPollState

\* the outcomes of a save that returns an error
FailedSaves == SaveOutcomes \ {"ok"}

\* in the current state, a save that fails after the handling of any token
\* leaves the registry the handler left, the process running and only a
\* log entry
HandlerSwallows ==
  \A kind \in DiskKinds, id \in EventPollIDs, userID \in DiskUsers, now \in Times,
     saved \in FailedSaves :
    LET h == Handled(kind, id, userID, NoRank, <<"0">>, now)
        r == RegisterPollHandlers(polls, file, logged, kind, id, userID, NoRank,
                                  <<"0">>, now, saved)
    IN ~h.panic =>
         /\ r.polls = h.polls
         /\ ~r.crashed
         /\ r.logged.msg = "failed to save polls.json"
         /\ r.file \in {file, PartialFile}

\* the same for the creation of a poll
CreationSwallows ==
  \A guildID \in Guilds, userID \in DiskUsers, now \in Times, saved \in FailedSaves :
    LET poll == CreatePoll(guildID, ChannelOf(guildID), userID, InteractionOf(userID), now, 1)
        r == createPollHandler(polls, file, logged, guildID, userID, now, saved)
    IN /\ r.polls = AddPoll(polls, poll)
       /\ r.logged.msg = "failed to save poll state"
       /\ r.file \in {file, PartialFile}

\* a step that writes a new entry for a failed save of a handler is the
\* handling of the token the entry names, and the process goes on
LoggedStepKeeps ==
  (logged' # logged /\ logged'.msg = "failed to save polls.json") =>
    /\ ~crashed'
    /\ \E userID \in DiskUsers, now \in Times :
         LET h == Handled(logged'.id.Kind, logged'.id.PollID, userID, logged'.id.Rank,
                          <<"0">>, now)
         IN ~h.panic /\ polls' = h.polls

\* C26: when SaveToFile returns an error after a handled action or after
\* the creation of a poll, the error is only logged, the handler completes
\* and every Poll in memory is what the action left: nothing is rolled back
SaveFailureSwallowed ==
  /\ [](~crashed => HandlerSwallows /\ CreationSwallows)
  /\ [][LoggedStepKeeps]_vars

\* the process runs after a failed save of a submission: the entry names
\* the modal, the poll in memory holds the submission and no file of it
\* was ever written
W_SaveFailureSwallowed ==
  /\ ~crashed
  /\ logged.msg = "failed to save polls.json"
  /\ logged.id.Kind = SubmitModal
  /\ file.kind # "json"
  /\ \E id \in DOMAIN polls : Len(polls[id].Submissions) = 1

\* the goroutine is between poll.mut.Lock() and the deferred Unlock: it
\* performs the operation of its token on the Poll
InHandler(p) == pc[p] \in {"Read", "Write", "Unlock"}

\* the goroutine holds PollState.mut, to read or to write
HoldsRegistry(p) == p \in psmut.readers \/ psmut.writer = p

\* the goroutine holds the mut of some Poll
HoldsPoll(p) == \E a \in 1..Len(pollmut) : pollmut[a] = p

\* what a handler assigns to the Poll is computed from the Poll as it is:
\* no other assignment came between its read and its write
WritesWhatItRead ==
  \A p \in Handlers :
    (pc[p] = "Write" /\ pc'[p] = "Unlock") => local[p] = heap[target[p]]

\* C22: for each Poll at most one mutating operation is in progress: a
\* handler performs it while it holds the Poll's own lock, so the steps of
\* two operations on the same Poll never interleave
MutationsExclusive ==
  /\ [](/\ \A p \in Handlers : InHandler(p) => pollmut[target[p]] = p
        /\ \A p, q \in Handlers :
             (p # q /\ InHandler(p) /\ InHandler(q)) => target[p] # target[q])
  /\ [][WritesWhatItRead]_vars

\* a submission is being appended to a Poll while the goroutine of another
\* submission to the same Poll waits for its lock
W_MutationsExclusive ==
  \E p, q \in Handlers :
    /\ p # q
    /\ pc[p] = "Write"
    /\ pc[q] = "Lock"
    /\ target[p] = target[q]
    /\ token[p].Kind = SubmitModal
    /\ token[q].Kind = SubmitModal
    /\ Len(heap[target[p]].Submissions) = 0

\* C23: no goroutine holds the registry's lock while it acquires or holds
\* a Poll's lock: GetPoll has released it before poll.mut.Lock(), and
\* SaveToFile is entered after the Poll's lock was released
RegistryLockApart ==
  \A p \in Procs :
    /\ HoldsRegistry(p) => pc[p] # "Lock" /\ ~InHandler(p) /\ ~HoldsPoll(p)
    /\ pc[p] \in {"Save", "SaveWrite"} => ~HoldsPoll(p)

\* a goroutine saves under the registry's lock the Poll it has handled,
\* while another goroutine holds that Poll's lock
W_RegistryLockApart ==
  \E p, q \in Handlers :
    /\ p # q
    /\ pc[p] = "SaveWrite"
    /\ HoldsRegistry(p)
    /\ target[p] # 0
    /\ InHandler(q)
    /\ target[q] = target[p]

(***************************************************************************)
(* Properties of behaviours.                                               *)
(***************************************************************************)
\* C33: every creation adds a new Poll and replaces none: the poll created,
\* also when created for the same group in the same second as an earlier
\* one, gets an identity no Poll of the registry has, and every Poll of the
\* registry is retrievable as it was afterwards
CreateNeverReplaces ==
  \A guildID \in Guilds, userID \in Actors, now \in Times :
    LET poll == CreatePoll(guildID, ChannelOf(guildID), userID, InteractionOf(userID), now, 1)
        r == createPollHandler(polls, file, logged, guildID, userID, now, "ok")
    IN /\ poll.ID \notin DOMAIN polls
       /\ \A id \in DOMAIN polls : r.polls[id] = polls[id]

\* C34: in every reachable state a Vote that has been finalized carries a
\* permutation of [0, N): no later action, a vote-select of its user
\* included, leaves it with a repeated, unranked or out-of-range entry
FinalizedStaysPermutation ==
  \A id \in DOMAIN polls :
    LET p == polls[id]
    IN \A i \in 1..Len(p.Votes) :
         p.Votes[i].VotedAt \in Times =>
           IsPermutation(p.Votes[i].Rankings, Len(p.Submissions))

\* C35: a Poll whose Phase is Completed keeps its ballot: no token of any
\* kind (submit, vote-select, vote-submit, lock, end) changes its
\* submissions or its votes, so that CalculateResults, which reads nothing
\* else, returns the same ranking ever after
CompletedBallotFixed ==
  \A id \in DOMAIN polls :
    polls[id].Phase = PhaseCompleted =>
      \A t \in Tokens :
        LET out == HandledToken(id, t)
        IN \/ out.panic
           \/ /\ out.polls[id].Submissions = polls[id].Submissions
              /\ out.polls[id].Votes = polls[id].Votes

\* C36: in every reachable state of a poll the handling of a vote-select
\* token completes without an index out of range: the rank of the token is
\* a position of the ranking written, the existing ranking of the user or a
\* new one of the length of the submissions, an empty one included
VoteSelectInRange ==
  \A id \in DOMAIN polls :
    \A t \in Tokens :
      (t.kind = VoteSelect /\ Len(t.values) = 1 /\ ~Atoi(t.values[1]).err) =>
        /\ ~HandledToken(id, t).panic
        /\ LET i == VoteOf(polls[id], t.userID)
               L == IF i > 0 THEN Len(polls[id].Votes[i].Rankings)
                    ELSE Len(polls[id].Submissions)
           IN t.rank \in 0..(L - 1)

\* the votes, each finalized at time now
Stamped(votes, now) == [i \in 1..Len(votes) |-> [votes[i] EXCEPT !.VotedAt = now]]

\* the votes without vote i
Without(votes, i) == [k \in 1..(Len(votes) - 1) |-> IF k < i THEN votes[k] ELSE votes[k + 1]]

\* the first entry of the ranking that counts in a round, -1 when none does
RECURSIVE FirstCounting(_, _, _, _)
FirstCounting(rankings, j, n, elim) ==
  IF j > Len(rankings) THEN -1
  ELSE IF rankings[j] >= 0 /\ rankings[j] < n /\ rankings[j] \notin elim THEN rankings[j]
  ELSE FirstCounting(rankings, j + 1, n, elim)

\* C39: the tally takes every Vote of the Poll, finalized or not: in every
\* round, whatever has been eliminated, the counts are those of the same
\* votes all finalized, and a Vote never finalized adds one to the count
\* of the first entry of its ranking still in the race, its sentinel slots
\* being passed over
TallyCountsUnfinalized ==
  \A id \in DOMAIN polls :
    LET p == polls[id]
        n == Len(p.Submissions)
    IN \A elim \in SUBSET (0..(n - 1)) :
         LET cnt == CountVotes(p.Votes, 1, n, elim, EmptyMap)
         IN /\ cnt = CountVotes(Stamped(p.Votes, NoTime), 1, n, elim, EmptyMap)
            /\ \A i \in 1..Len(p.Votes) :
                 LET c == FirstCounting(p.Votes[i].Rankings, 1, n, elim)
                     rest == CountVotes(Without(p.Votes, i), 1, n, elim, EmptyMap)
                 IN (p.Votes[i].VotedAt = 0 /\ c >= 0) =>
                      /\ Get(cnt, c) = Get(rest, c) + 1
                      /\ \A d \in (0..(n - 1)) \ {c} : Get(cnt, d) = Get(rest, d)

\* a poll with two submissions and two votes, one finalized and one never
\* finalized whose first slot is still the sentinel and whose second slot
\* is counted
W_TallyCountsUnfinalized ==
  \E id \in DOMAIN polls :
    LET p == polls[id]
    IN /\ Len(p.Submissions) = 2
       /\ Len(p.Votes) = 2
       /\ \E i, j \in 1..2 :
            /\ p.Votes[i].VotedAt \in Times
            /\ p.Votes[j].VotedAt = 0
            /\ p.Votes[j].Rankings[1] = -1
            /\ FirstCounting(p.Votes[j].Rankings, 1, 2, {}) = p.Votes[j].Rankings[2]
            /\ Get(CountVotes(p.Votes, 1, 2, {}, EmptyMap), p.Votes[j].Rankings[2]) >= 1

MapWrittenUnderWriteLock ==
  [][registry' # registry => psmut.writer # "none" /\ psmut.readers = {}]_vars

\* C32: SaveToFile never reads a Poll while a handler of another goroutine
\* is at work on it: when a goroutine reads the Polls of the registry for
\* the snapshot, no other goroutine is between the Lock and the Unlock of
\* one of them, so that the snapshot shows every Poll as it was between two
\* complete operations
SaveReadsQuiescent ==
  \A p \in Procs :
    pc[p] = "SaveWrite" =>
      \A q \in Handlers \ {p} :
        InHandler(q) => \A id \in DOMAIN registry : registry[id] # target[q]

\* C38: the handlers are free of deadlock: every goroutine that has begun
\* a callback, and so waits for a Poll's lock or for the registry's lock at
\* some point, gets the lock and completes the callback, whether the
\* goroutines work on the same Poll or on different ones
HandlersComplete ==
  \A p \in Procs : (pc[p] # "idle") ~> (pc[p] = "idle")

\* a goroutine waits for the lock of a Poll that another goroutine holds,
\* while the creating goroutine waits for the registry's lock
W_HandlersComplete ==
  \E p, q \in Handlers :
    /\ p # q
    /\ pc[p] = "Lock"
    /\ pollmut[target[p]] = q
    /\ pc[Creator] = "AddPollWait"
====
